---- MODULE Spec2Model ----
(***************************************************************************)
(* Cloudflare network monitor: the /api/check handler in its three         *)
(* evolutions, with the caches they share between requests.                *)
(*   "mem"   src/routes/api/check.ts      in-memory caches, official-prefix *)
(*                                        score, no report cache           *)
(*   "kv"    src/unnamed/part_000:1-393   Deno KV caches, regional-peering  *)
(*                                        score, report cache              *)
(*   "multi" src/unnamed/part_000:395-697 in-memory route table, KV IXP and *)
(*                                        report cache, multi-network view *)
(* and the dashboard island that calls it (src/islands/NetworkMonitor.tsx).*)
(***************************************************************************)
EXTENDS Integers, Sequences, FiniteSets, TLC

VARIABLES evo, now, ticks, bgpCache, cfIpCache, ixCache, ispIxCacheTimestamp,
          resultCache, reqs, aggIn, aggOut, ixLast, dash

vars == <<evo, now, ticks, bgpCache, cfIpCache, ixCache, ispIxCacheTimestamp,
          resultCache, reqs, aggIn, aggOut, ixLast, dash>>

(***************************************************************************)
(* Bounds of the model.                                                    *)
(***************************************************************************)
\* number of request slots that can be in flight at the same time
MaxReq == 1
\* number of times the clock advances in one behaviour
MaxTicks == 1
\* how many entries of NETWORKS the multi-network handler is run with
NumNetworks == 2

(***************************************************************************)
(* Program constants.                                                      *)
(***************************************************************************)
CLOUDFLARE_AS == 13335
BGP_CACHE_TTL == 1800000
PEERINGDB_CACHE_TTL == 86400000
RESULT_CACHE_TTL == 86400000
\* check.ts spells its TTLs inline: 3600_000 for the three registry/IP caches
MEM_CACHE_TTL == 3600000
\* .slice(0, 50) of the low-visibility list, .slice(0, 10) of the more-specifics
LOW_VIS_LIMIT == 50
MORE_SPECIFIC_LIMIT == 10

\* null / undefined of a record-valued slot
Null == [null |-> TRUE]

ISP_LIST == <<
  [asn |-> 1136,  name |-> "KPN", country |-> "NL"],
  [asn |-> 9143,  name |-> "Ziggo (VodafoneZiggo)", country |-> "NL"],
  [asn |-> 31615, name |-> "Odido (T-Mobile NL)", country |-> "NL"],
  [asn |-> 20857, name |-> "TransIP", country |-> "NL"],
  [asn |-> 3320,  name |-> "Deutsche Telekom", country |-> "DE"],
  [asn |-> 3209,  name |-> "Vodafone Germany", country |-> "DE"],
  [asn |-> 8560,  name |-> "1&1 / IONOS", country |-> "DE"],
  [asn |-> 6805,  name |-> "Telefonica Germany (O2)", country |-> "DE"],
  [asn |-> 5432,  name |-> "Proximus", country |-> "BE"],
  [asn |-> 6848,  name |-> "Telenet", country |-> "BE"],
  [asn |-> 47377, name |-> "Orange Belgium", country |-> "BE"],
  [asn |-> 12392, name |-> "VOO", country |-> "BE"],
  [asn |-> 6661,  name |-> "POST Luxembourg", country |-> "LU"],
  [asn |-> 56665, name |-> "Tango (Proximus LU)", country |-> "LU"],
  [asn |-> 34769, name |-> "Orange Luxembourg", country |-> "LU"],
  [asn |-> 3215,  name |-> "Orange France", country |-> "FR"],
  [asn |-> 12322, name |-> "Free (Iliad)", country |-> "FR"],
  [asn |-> 15557, name |-> "SFR", country |-> "FR"],
  [asn |-> 5410,  name |-> "Bouygues Telecom", country |-> "FR"] >>

\* the regional-peering evolution's list (part_000:22-28)
REGIONAL_IXPS == <<
  [id |-> 26,  name |-> "AMS-IX", country |-> "NL"],
  [id |-> 59,  name |-> "BNIX", country |-> "BE"],
  [id |-> 31,  name |-> "DE-CIX Frankfurt", country |-> "DE"],
  [id |-> 297, name |-> "LU-CIX", country |-> "LU"],
  [id |-> 359, name |-> "France-IX Paris", country |-> "FR"] >>

\* the multi-network evolution's list (part_000:417-433)
REGIONAL_IXPS_MULTI == REGIONAL_IXPS \o <<
  [id |-> 18, name |-> "LINX LON1", country |-> "GB"],
  [id |-> 48, name |-> "NL-ix", country |-> "NL"],
  [id |-> 87, name |-> "DE-CIX Munich", country |-> "DE"],
  [id |-> 49, name |-> "MIX-IT", country |-> "IT"],
  [id |-> 60, name |-> "Netnod Stockholm", country |-> "SE"],
  [id |-> 35, name |-> "SwissIX", country |-> "CH"],
  [id |-> 64, name |-> "ESPANIX", country |-> "ES"],
  [id |-> 74, name |-> "VIX", country |-> "AT"],
  [id |-> 69, name |-> "DE-CIX Hamburg", country |-> "DE"],
  [id |-> 58, name |-> "CIXP", country |-> "CH"] >>

ALL_NETWORKS == <<
  [asn |-> 13335,  name |-> "Cloudflare"],
  [asn |-> 40401,  name |-> "Backblaze"],
  [asn |-> 202053, name |-> "UpCloud"],
  [asn |-> 396982, name |-> "Google Cloud"],
  [asn |-> 16509,  name |-> "AWS"],
  [asn |-> 8075,   name |-> "Azure"] >>

\* the handler is run with the first NumNetworks networks of the list
NETWORKS == SubSeq(ALL_NETWORKS, 1, IF NumNetworks < 6 THEN NumNetworks ELSE 6)

(***************************************************************************)
(* Sequence and arithmetic helpers (Array.prototype / Math).               *)
(***************************************************************************)
\* Array.prototype.filter
Filter(s, P(_)) == SelectSeq(s, P)

\* Array.prototype.find: the first element that satisfies P, or Null
Find(s, P(_)) ==
  LET hits == {i \in DOMAIN s : P(s[i])}
  IN  IF hits = {} THEN Null
      ELSE s[CHOOSE i \in hits : \A j \in hits : i <= j]

\* Array.prototype.slice(0, n)
Slice0(s, n) == SubSeq(s, 1, IF Len(s) < n THEN Len(s) ELSE n)

RECURSIVE SumSeq(_)
SumSeq(s) == IF s = <<>> THEN 0 ELSE Head(s) + SumSeq(Tail(s))

MinOf(a, b) == IF a < b THEN a ELSE b
MaxOf(a, b) == IF a > b THEN a ELSE b

RECURSIVE MinSeq(_)
MinSeq(s) == IF Len(s) = 1 THEN s[1] ELSE MinOf(Head(s), MinSeq(Tail(s)))

RECURSIVE MaxSeq(_)
MaxSeq(s) == IF Len(s) = 1 THEN s[1] ELSE MaxOf(Head(s), MaxSeq(Tail(s)))

\* Math.round(n / d) for d > 0: the nearest integer, a half rounded up
RoundDiv(n, d) == (2 * n + d) \div (2 * d)

\* insert e after every element whose Hits is <= e.Hits: the stable order of
\* Array.prototype.sort((a, b) => a.Hits - b.Hits)
RECURSIVE InsertByHits(_, _)
InsertByHits(e, s) ==
  IF s = <<>> THEN <<e>>
  ELSE IF Head(s).Hits <= e.Hits THEN <<Head(s)>> \o InsertByHits(e, Tail(s))
  ELSE <<e>> \o s

\* the list left in the order of the table
SortByHitsNone(s) == s

RECURSIVE SortByHits(_)
SortByHits(s) ==
  IF s = <<>> THEN <<>>
  ELSE InsertByHits(s[Len(s)], SortByHits(SubSeq(s, 1, Len(s) - 1)))

(***************************************************************************)
(* Prefixes.  A CIDR string "a.b.c.d/m" or "g:g::g/m" is the record         *)
(* [v6, parts, mask]: parts are the numbers between the dots, or the        *)
(* groups between the colons with EmptyGroup for the empty string that "::" *)
(* leaves in ip.split(":").  Two records are equal exactly when the strings *)
(* are, so e.CIDR === cfPrefix is record equality.                         *)
(***************************************************************************)
EmptyGroup == -1

V4(a, b, c, d, m) == [v6 |-> FALSE, parts |-> <<a, b, c, d>>, mask |-> m]
V6(groups, m) == [v6 |-> TRUE, parts |-> groups, mask |-> m]

\* parsePrefix(cidr).isV6 and e.CIDR.includes(":")
IsV6(cidr) == cidr.v6

RECURSIVE Pow2(_)
Pow2(n) == IF n = 0 THEN 1 ELSE 2 * Pow2(n - 1)

\* the w bits of n, most significant first
BitsOf(n, w) == [i \in 1..w |-> (n \div Pow2(w - i)) % 2]

RECURSIVE ConcatAll(_)
ConcatAll(ss) == IF ss = <<>> THEN <<>> ELSE Head(ss) \o ConcatAll(Tail(ss))

\* ipv4ToInt: the 32-bit unsigned number, as its 32 bits
ipv4ToInt(parts) == ConcatAll([i \in 1..4 |-> BitsOf(parts[i], 8)])

\* (0xffffffff << (32 - mask)) >>> 0, the shift count taken modulo 32 as JS does
ipv4Mask(mask) ==
  IF mask = 0 THEN [i \in 1..32 |-> 0]
  ELSE LET shift == (32 - mask) % 32
       IN  [i \in 1..32 |-> IF i <= 32 - shift THEN 1 ELSE 0]

BitAnd(x, y) == [i \in DOMAIN x |-> x[i] * y[i]]

\* the addresses compared without the mask
sameAddress(parentIp, childIp, mask) == parentIp = childIp

\* (parentIp & mask) === (childIp & mask)
sameUnderMask(parentIp, childIp, mask) == BitAnd(parentIp, mask) = BitAnd(childIp, mask)

ipv4PrefixContains(parent, child) ==
  IF IsV6(parent) \/ IsV6(child) THEN FALSE
  ELSE IF child.mask < parent.mask THEN FALSE
  ELSE sameUnderMask(ipv4ToInt(parent.parts), ipv4ToInt(child.parts),
                     ipv4Mask(parent.mask))

IndexOfEmpty(parts) ==
  LET e == {i \in DOMAIN parts : parts[i] = EmptyGroup}
  IN  IF e = {} THEN 0 ELSE CHOOSE i \in e : \A j \in e : i <= j

\* [...before, ...Array(8 - before.length - after.length).fill("0"), ...after]
fillGap(before, after) ==
  before \o [i \in 1..(8 - Len(before) - Len(after)) |-> 0] \o after

\* parts.slice(0, emptyIdx) and parts.slice(emptyIdx + 1).filter((p) => p !== "")
expandAt(parts, emptyIdx) ==
  IF emptyIdx = 0 THEN parts
  ELSE fillGap(SubSeq(parts, 1, emptyIdx - 1),
               SelectSeq(SubSeq(parts, emptyIdx + 1, Len(parts)),
                         LAMBDA g : g # EmptyGroup))

\* expandIPv6: the groups with the "::" gap filled by zero groups
expandIPv6(parts) == expandAt(parts, IndexOfEmpty(parts))

\* the groups, each padded to four hex digits, read as one number
groupBits(groups) == ConcatAll([i \in 1..Len(groups) |-> BitsOf(groups[i], 16)])

\* ipv6ToBigInt: the number, as the bits of its hex digits (4 per group digit)
ipv6ToBigInt(parts) == groupBits(expandIPv6(parts))

\* ((1n << 128n) - 1n) << (128n - BigInt(mask)), seen through the & with a
\* 128-bit number: its top `mask` bits
ipv6Mask(mask) ==
  IF mask = 0 THEN [i \in 1..128 |-> 0]
  ELSE [i \in 1..128 |-> IF i <= mask THEN 1 ELSE 0]

ipv6PrefixContains(parent, child) ==
  IF ~IsV6(parent) \/ ~IsV6(child) THEN FALSE
  ELSE IF child.mask < parent.mask THEN FALSE
  ELSE sameUnderMask(ipv6ToBigInt(parent.parts), ipv6ToBigInt(child.parts),
                     ipv6Mask(parent.mask))

prefixContains(parent, child) ==
  IF IsV6(parent) # IsV6(child) THEN FALSE
  ELSE IF IsV6(parent) THEN ipv6PrefixContains(parent, child)
  ELSE ipv4PrefixContains(parent, child)

(***************************************************************************)
(* Aggregation: the synchronous part of the handlers between Promise.all   *)
(* and the response.  A BgpEntry is [CIDR, ASN, Hits]; a route table holds *)
(* whatever JSON.parse returned for a line, so it may hold Null (the JSON  *)
(* literal null), on which e.ASN raises a TypeError.                       *)
(***************************************************************************)
AggregationThrows(bgpTable) == \E i \in DOMAIN bgpTable : bgpTable[i] = Null

\* bgpTable.filter((e) => e.ASN === CLOUDFLARE_AS)
cfBgpEntries(bgpTable) == Filter(bgpTable, LAMBDA e : e.ASN = CLOUDFLARE_AS)

v4Prefixes(entries) == Filter(entries, LAMBDA e : ~IsV6(e.CIDR))
v6Prefixes(entries) == Filter(entries, LAMBDA e : IsV6(e.CIDR))

visibilities(entries) == [i \in DOMAIN entries |-> entries[i].Hits]

\* Math.round(sum / visibilities.length), or 0
avgVisibility(entries) ==
  IF Len(entries) > 0
  THEN RoundDiv(SumSeq(visibilities(entries)), Len(entries))
  ELSE 0

\* visibilities[0] in place of Math.min(...visibilities)
minVisibilityFirst(entries) ==
  IF Len(entries) > 0 THEN visibilities(entries)[1] ELSE 0

minVisibility(entries) ==
  IF Len(entries) > 0 THEN MinSeq(visibilities(entries)) ELSE 0

maxVisibility(entries) ==
  IF Len(entries) > 0 THEN MaxSeq(visibilities(entries)) ELSE 0

\* e.Hits < Math.max(1000, avgVisibility * 0.5), both sides doubled
belowThreshold(e, avg) == 2 * e.Hits < MaxOf(2000, avg)

CfPrefixInfo(e) ==
  [prefix |-> e.CIDR,
   type |-> IF IsV6(e.CIDR) THEN "v6" ELSE "v4",
   visibility |-> e.Hits,
   mask |-> e.CIDR.mask]

lowVisibility(entries) ==
  LET avg == avgVisibility(entries)
      low == Slice0(SortByHits(Filter(entries, LAMBDA e : belowThreshold(e, avg))),
                    LOW_VIS_LIMIT)
  IN  [i \in DOMAIN low |-> CfPrefixInfo(low[i])]

\* > for >=: an entry at a bound is counted one bucket lower
bucketOfExclusive(hits) ==
  IF hits > 3000 THEN 5
  ELSE IF hits > 2000 THEN 4
  ELSE IF hits > 1000 THEN 3
  ELSE IF hits > 500 THEN 2
  ELSE 1

\* the chain without its last else: under 500 hits no bucket is counted
bucketOfNoFloor(hits) ==
  IF hits >= 3000 THEN 5
  ELSE IF hits >= 2000 THEN 4
  ELSE IF hits >= 1000 THEN 3
  ELSE IF hits >= 500 THEN 2
  ELSE 0

\* the if / else if chain over e.Hits: the index of the bucket counted
bucketOf(hits) ==
  IF hits >= 3000 THEN 5
  ELSE IF hits >= 2000 THEN 4
  ELSE IF hits >= 1000 THEN 3
  ELSE IF hits >= 500 THEN 2
  ELSE 1

visibilityBuckets(entries) ==
  LET count(b) == Cardinality({i \in DOMAIN entries : bucketOf(entries[i].Hits) = b})
  IN  << [label |-> "0-500", min |-> 0, count |-> count(1)],
         [label |-> "500-1000", min |-> 500, count |-> count(2)],
         [label |-> "1000-2000", min |-> 1000, count |-> count(3)],
         [label |-> "2000-3000", min |-> 2000, count |-> count(4)],
         [label |-> "3000+", min |-> 3000, count |-> count(5)] >>

\* the cfPrefixes / bgp block shared by the two KV handlers
bgpStats(bgpTable) ==
  LET entries == cfBgpEntries(bgpTable)
  IN  [total |-> Len(entries),
       v4 |-> Len(v4Prefixes(entries)),
       v6 |-> Len(v6Prefixes(entries)),
       avgVisibility |-> avgVisibility(entries),
       minVisibility |-> minVisibility(entries),
       maxVisibility |-> maxVisibility(entries),
       lowVisibility |-> lowVisibility(entries),
       visibilityBuckets |-> visibilityBuckets(entries)]

\* the IXPs either network is at, counted as shared
sharedIxpsEither(ispIxIds, cfIxIds) == Cardinality(ispIxIds \cup cfIxIds)

\* [...ispIxData.ixIds].filter((id) => cfIxIds.has(id)).length
sharedIxps(ispIxIds, cfIxIds) == Cardinality({id \in ispIxIds : id \in cfIxIds})

ispInfoOf(targetAsn) == Find(ISP_LIST, LAMBDA i : i.asn = targetAsn)

ispCountryOf(targetAsn) ==
  IF ispInfoOf(targetAsn) = Null THEN "??" ELSE ispInfoOf(targetAsn).country

ispNameOf(targetAsn) ==
  IF ispInfoOf(targetAsn) = Null THEN <<"AS", targetAsn>>
  ELSE ispInfoOf(targetAsn).name

IxpStatus(ixp, cfIxIds, ispIxIds) ==
  [id |-> ixp.id, name |-> ixp.name, country |-> ixp.country,
   cfPresent |-> ixp.id \in cfIxIds,
   ispPresent |-> ixp.id \in ispIxIds,
   peered |-> ixp.id \in cfIxIds /\ ixp.id \in ispIxIds]

allIxpStatuses(cfIxIds, ispIxIds) ==
  [i \in DOMAIN REGIONAL_IXPS |-> IxpStatus(REGIONAL_IXPS[i], cfIxIds, ispIxIds)]

regionalIxp(targetAsn, cfIxIds, ispIxIds) ==
  Find(allIxpStatuses(cfIxIds, ispIxIds),
       LAMBDA ix : ix.country = ispCountryOf(targetAsn))

\* a forgotten "1 -": Math.round((0 - lowVisRatio) * 40)
healthScoreNegated(lowCount, total) ==
  IF total > 0 THEN RoundDiv(40 * (0 - lowCount), total) ELSE 0

\* Math.round((1 - lowVisRatio) * 40), where lowVisRatio is lowCount / total,
\* or 0 when there are no entries (and the score is then round(1 * 40))
healthScore(lowCount, total) ==
  IF total > 0 THEN RoundDiv(40 * (total - lowCount), total) ELSE 40

\* the target network's presence alone earns the points
regionalPeeringScoreCfOnly(regional) ==
  IF regional # Null /\ regional.cfPresent THEN 40 ELSE 0

\* regionalIxp?.peered ? 40 : 0
regionalPeeringScore(regional) ==
  IF regional # Null /\ regional.peered THEN 40 ELSE 0

\* the full 20 points for any shared IXP
anyPeeringScoreFlat(shared) == IF shared > 0 THEN 20 ELSE 0

\* five points for a shared IXP, as in the official-prefix handler
anyPeeringScoreFive(shared) == IF shared > 0 THEN MinOf(shared * 5, 20) ELSE 0

\* sharedIxps > 0 ? Math.min(sharedIxps * 10, 20) : 0
anyPeeringScore(shared) == IF shared > 0 THEN MinOf(shared * 10, 20) ELSE 0

\* a score that also counts the time at which it is computed
scoreRegionalTimed(bgpTable, regional, shared) ==
  LET entries == cfBgpEntries(bgpTable)
  IN  MinOf(100, healthScore(Len(lowVisibility(entries)), Len(entries))
                   + regionalPeeringScore(regional) + anyPeeringScore(shared)
                   + now)

scoreRegional(bgpTable, regional, shared) ==
  LET entries == cfBgpEntries(bgpTable)
  IN  MinOf(100, healthScore(Len(lowVisibility(entries)), Len(entries))
                   + regionalPeeringScore(regional) + anyPeeringScore(shared))

\* the IspCheckResult of the regional-peering handler (part_000:347-370)
IspCheckResult(targetAsn, bgpTable, cfIxIds, ispIxData) ==
  LET shared == sharedIxps(ispIxData.ixIds, cfIxIds)
      regional == regionalIxp(targetAsn, cfIxIds, ispIxData.ixIds)
  IN  [asn |-> targetAsn,
       name |-> ispNameOf(targetAsn),
       country |-> ispCountryOf(targetAsn),
       cfPrefixes |-> bgpStats(bgpTable),
       peering |-> [sharedIxps |-> shared,
                    ispIxps |-> ispIxData.ixCount,
                    cfIxps |-> Cardinality(cfIxIds),
                    likelyDirectPeering |-> shared > 0,
                    regionalIxp |-> regional,
                    allIxps |-> allIxpStatuses(cfIxIds, ispIxData.ixIds)],
       score |-> scoreRegional(bgpTable, regional, shared)]

\* the CheckResult of the multi-network handler (part_000:599-670);
\* networkIxIds[i] is the set fetched for NETWORKS[i]
CheckResult(bgpTable, networkIxIds) ==
  [ixps |-> [k \in DOMAIN REGIONAL_IXPS_MULTI |->
               [id |-> REGIONAL_IXPS_MULTI[k].id,
                name |-> REGIONAL_IXPS_MULTI[k].name,
                country |-> REGIONAL_IXPS_MULTI[k].country,
                networks |-> [i \in DOMAIN NETWORKS |->
                                [asn |-> NETWORKS[i].asn,
                                 name |-> NETWORKS[i].name,
                                 present |-> REGIONAL_IXPS_MULTI[k].id
                                               \in networkIxIds[i]]]]],
   bgp |-> bgpStats(bgpTable),
   cfIxpsGlobal |-> Cardinality(networkIxIds[1])]

(***************************************************************************)
(* The official-prefix evolution (check.ts:294-391).                       *)
(***************************************************************************)
exactMatch(entries, cfPrefix) == Find(entries, LAMBDA e : e.CIDR = cfPrefix)

moreSpecifics(entries, cfPrefix) ==
  Filter(entries, LAMBDA e : e.CIDR # cfPrefix /\ prefixContains(cfPrefix, e.CIDR))

\* the branches without the else if: more-specific entries count for nothing
bgpStatusExactOnly(exact, ms) ==
  IF exact # Null THEN "announced" ELSE "not-found"

\* the branch taken by if (exactMatch) ... else if (moreSpecifics.length > 0)
bgpStatus(exact, ms) ==
  IF exact # Null THEN "announced"
  ELSE IF Len(ms) > 0 THEN "deaggregated"
  ELSE "not-found"

\* moreSpecifics.slice(0, 10), pushed as CIDRs
msCidrs(ms) == [i \in DOMAIN Slice0(ms, MORE_SPECIFIC_LIMIT) |-> ms[i].CIDR]

\* the record pushed for one official prefix (check.ts:314-343)
PrefixRecord(cfPrefix, exact, ms, status) ==
  [prefix |-> cfPrefix,
   type |-> IF IsV6(cfPrefix) THEN "v6" ELSE "v4",
   bgpStatus |-> status,
   bgpPrefixes |-> IF status = "announced" THEN <<exact.CIDR>> \o msCidrs(ms)
                   ELSE IF status = "deaggregated" THEN msCidrs(ms)
                   ELSE <<>>,
   visibility |-> IF status = "announced" THEN exact.Hits
                  ELSE IF status = "deaggregated" THEN MaxSeq(visibilities(ms))
                  ELSE 0,
   moreSpecificCount |-> Len(ms)]

PrefixFrom(cfPrefix, exact, ms) ==
  PrefixRecord(cfPrefix, exact, ms, bgpStatus(exact, ms))

\* one turn of the loop over allCfPrefixes (check.ts:302-344)
PrefixResult(entries, cfPrefix) ==
  PrefixFrom(cfPrefix, exactMatch(entries, cfPrefix), moreSpecifics(entries, cfPrefix))

analyze(entries, allCfPrefixes) ==
  [i \in DOMAIN allCfPrefixes |-> PrefixResult(entries, allCfPrefixes[i])]

prefixResults(bgpTable, cfIps) == analyze(cfBgpEntries(bgpTable), cfIps.v4 \o cfIps.v6)

countStatus(results, status) ==
  Len(Filter(results, LAMBDA p : p.bgpStatus = status))

peeringBonus(shared) == IF shared > 0 THEN MinOf(shared * 5, 20) ELSE 0

\* Math.min(100, Math.round(bgpHealthScore * 0.8 + peeringBonus)) with
\* bgpHealthScore = (announced + deaggregated) / totalPrefixes * 100, or 0
scoreOfficial(announced, deaggregated, totalPrefixes, shared) ==
  MinOf(100,
        IF totalPrefixes > 0
        THEN RoundDiv(80 * (announced + deaggregated)
                        + peeringBonus(shared) * totalPrefixes, totalPrefixes)
        ELSE peeringBonus(shared))

\* the IspCheckResult of the official-prefix handler (check.ts:375-391)
OfficialReport(targetAsn, results, shared, ispIxps, cfIxps) ==
  [asn |-> targetAsn,
   name |-> ispNameOf(targetAsn),
   country |-> ispCountryOf(targetAsn),
   prefixes |-> results,
   totalPrefixes |-> Len(results),
   announced |-> countStatus(results, "announced"),
   deaggregated |-> countStatus(results, "deaggregated"),
   notFound |-> countStatus(results, "not-found"),
   score |-> scoreOfficial(countStatus(results, "announced"),
                           countStatus(results, "deaggregated"),
                           Len(results), shared),
   peering |-> [sharedIxps |-> shared,
                ispIxps |-> ispIxps,
                cfIxps |-> cfIxps,
                likelyDirectPeering |-> shared > 0]]

OfficialCheckResult(targetAsn, cfIps, bgpTable, cfIxIds, ispIxData) ==
  OfficialReport(targetAsn, prefixResults(bgpTable, cfIps),
                 sharedIxps(ispIxData.ixIds, cfIxIds),
                 ispIxData.ixCount, Cardinality(cfIxIds))

(***************************************************************************)
(* Request parameters.  A query string value is a tuple of characters.     *)
(***************************************************************************)
Digits == <<"0", "1", "2", "3", "4", "5", "6", "7", "8", "9">>

IsDigit(c) == \E d \in DOMAIN Digits : Digits[d] = c

DigitValue(c) == (CHOOSE d \in DOMAIN Digits : Digits[d] = c) - 1

RECURSIVE DigitPrefixValue(_, _)
DigitPrefixValue(text, acc) ==
  IF text = <<>> \/ ~IsDigit(Head(text)) THEN acc
  ELSE DigitPrefixValue(Tail(text), 10 * acc + DigitValue(Head(text)))

\* parseInt(asnParam) || 0: no digits read as 0
parseIntOrZero(text) == [nan |-> FALSE, value |-> DigitPrefixValue(text, 0)]

\* parseInt(asnParam): the longest leading run of digits, NaN when there is none
\* (for texts of digits, letters and dots: no sign, blank or 0x prefix)
parseInt(text) ==
  IF text = <<>> \/ ~IsDigit(Head(text)) THEN [nan |-> TRUE, value |-> 0]
  ELSE [nan |-> FALSE, value |-> DigitPrefixValue(text, 0)]

\* url.searchParams.get("asn"): null when absent, else the text
NoParam == [present |-> FALSE, text |-> <<>>]
Param(text) == [present |-> TRUE, text |-> text]

\* asnParam === undefined: get() returns null when absent, so never
IsFalsyParamNever(p) == FALSE

\* !asnParam
IsFalsyParam(p) == ~p.present \/ p.text = <<>>

AsnParams ==
  { NoParam, Param(<<>>), Param(<<"a", "b", "c">>),
    Param(<<"1", "1", "3", "6">>), Param(<<"1", "1", "3", "6", "a">>) }

(***************************************************************************)
(* What the upstreams can answer.                                          *)
(***************************************************************************)
BlankLine == [kind |-> "blank", value |-> Null]
MalformedLine == [kind |-> "malformed", value |-> Null]
JsonLine(v) == [kind |-> "json", value |-> v]

BgpEntry(cidr, asn, hits) == [CIDR |-> cidr, ASN |-> asn, Hits |-> hits]

EntryLow == BgpEntry(V4(104, 16, 0, 0, 13), CLOUDFLARE_AS, 100)
EntryMid == BgpEntry(V4(172, 64, 0, 0, 14), CLOUDFLARE_AS, 2500)
EntryHigh == BgpEntry(V6(<<9734, 18176, EmptyGroup, EmptyGroup>>, 32), CLOUDFLARE_AS, 4000)
EntryOther == BgpEntry(V4(8, 8, 8, 0, 24), 15169, 3000)

\* the lines of a table.jsonl body
PayloadA ==
  << JsonLine(EntryLow), BlankLine, MalformedLine, JsonLine(EntryMid),
     JsonLine(EntryHigh), JsonLine(EntryOther) >>

\* a body whose first line is the JSON literal null
PayloadNull == << JsonLine(Null), JsonLine(EntryLow) >>

\* the bodies bgp.tools answers with in the request model
Payloads == {PayloadA, PayloadNull}

\* the loop of fetchBgpTable so far: whether it threw, and the entries pushed
NoEntries == [threw |-> FALSE, entries |-> <<>>]

\* entries.push(JSON.parse(trimmed)) with no try around it
pushParsedUncaught(acc, line) ==
  IF line.kind = "json" THEN [acc EXCEPT !.entries = Append(@, line.value)]
  ELSE [acc EXCEPT !.threw = TRUE]

\* try { entries.push(JSON.parse(trimmed)); } catch { /* skip */ }
pushParsed(acc, line) ==
  IF line.kind = "json" THEN [acc EXCEPT !.entries = Append(@, line.value)]
  ELSE acc

\* for (const line of text.split("\n")): if (!trimmed) continue, else parse
RECURSIVE parseLines(_, _)
parseLines(lines, acc) ==
  IF lines = <<>> \/ acc.threw THEN acc
  ELSE IF Head(lines).kind = "blank" THEN parseLines(Tail(lines), acc)
  ELSE parseLines(Tail(lines), pushParsed(acc, Head(lines)))

\* the entries fetchBgpTable stores and returns
parseTable(text) == parseLines(text, NoEntries).entries

\* big: the parsed table is more than the 64 KiB a Deno KV value may hold
BgpResponses ==
  { [kind |-> "http", ok |-> TRUE, status |-> 200, body |-> p, big |-> FALSE] :
      p \in Payloads }
  \cup { [kind |-> "http", ok |-> TRUE, status |-> 200, body |-> PayloadA, big |-> TRUE],
         [kind |-> "http", ok |-> FALSE, status |-> 503, body |-> <<>>, big |-> FALSE],
         [kind |-> "reject", ok |-> FALSE, status |-> 0, body |-> <<>>, big |-> FALSE] }

\* a netixlan body: data is an array of entries (an entry is its ix_id, 0 when
\* it has none), undefined, or a value that is not iterable
RegistryBody(parsable, metaError, dataKind, items) ==
  [parsable |-> parsable, metaError |-> metaError, dataKind |-> dataKind,
   items |-> items]

RegistryItems == { <<>>, <<26, 0, 59, 26>> }

RegistryResponses ==
  { [kind |-> "http", ok |-> TRUE, status |-> 200,
     body |-> RegistryBody(TRUE, FALSE, "array", it)] : it \in RegistryItems }
  \cup
  { [kind |-> "http", ok |-> FALSE, status |-> 429,
     body |-> RegistryBody(TRUE, TRUE, "undefined", <<>>)],
    [kind |-> "http", ok |-> FALSE, status |-> 429,
     body |-> RegistryBody(FALSE, FALSE, "undefined", <<>>)],
    [kind |-> "http", ok |-> TRUE, status |-> 200,
     body |-> RegistryBody(TRUE, TRUE, "array", <<>>)],
    [kind |-> "http", ok |-> TRUE, status |-> 200,
     body |-> RegistryBody(TRUE, FALSE, "object", <<>>)],
    [kind |-> "reject", ok |-> FALSE, status |-> 0,
     body |-> RegistryBody(FALSE, FALSE, "undefined", <<>>)] }

\* the registry did not answer with a usable membership list
RegistryUnavailable(resp) ==
  \/ resp.kind = "reject"
  \/ ~resp.ok
  \/ ~resp.body.parsable
  \/ resp.body.metaError
  \/ resp.body.dataKind # "array"

\* for (const entry of data.data) if (entry.ix_id) ixIds.add(entry.ix_id)
ixIdsOf(items) == {items[i] : i \in {j \in DOMAIN items : items[j] # 0}}

\* the official prefix lists, as fetchCloudflareIPs keeps them
OfficialIps ==
  [v4 |-> << V4(104, 16, 0, 0, 13), V4(172, 64, 0, 0, 13), V4(131, 0, 72, 0, 22) >>,
   v6 |-> << V6(<<9734, 18176, EmptyGroup, EmptyGroup>>, 32) >>]
NoIps == [v4 |-> <<>>, v6 |-> <<>>]

IpsResponses ==
  { [kind |-> "http", ips |-> OfficialIps], [kind |-> "reject", ips |-> NoIps] }

(***************************************************************************)
(* The membership fetchers after their cache miss: what they return for a  *)
(* registry answer, whether they throw, and whether they write the cache.  *)
(***************************************************************************)
IxOutcome(threw, ixIds, write, degraded) ==
  [threw |-> threw, ixIds |-> ixIds, write |-> write, degraded |-> degraded]

IxFallback == IxOutcome(FALSE, {}, FALSE, TRUE)

\* fetchCloudflareIxIds / fetchIspIxData of the regional-peering evolution
\* (part_000:108-132, 143-167): the set is stored whatever its size
fetchIxKv(resp) ==
  IF resp.kind = "reject" THEN IxFallback
  ELSE IF ~resp.ok THEN IxFallback
  ELSE IF ~resp.body.parsable THEN IxFallback
  ELSE IF resp.body.metaError \/ resp.body.dataKind # "array" THEN IxFallback
  ELSE IxOutcome(FALSE, ixIdsOf(resp.body.items), TRUE, FALSE)

\* fetchAsnIxIds of the multi-network evolution (part_000:498-530):
\* if (ixIds.size > 0) kv.set
fetchAsnIxIds(resp) ==
  IF resp.kind = "reject" THEN IxFallback
  ELSE IF ~resp.ok THEN IxFallback
  ELSE IF ~resp.body.parsable THEN IxFallback
  ELSE IF resp.body.metaError \/ resp.body.dataKind # "array" THEN IxFallback
  ELSE LET ixIds == ixIdsOf(resp.body.items)
       IN  IxOutcome(FALSE, ixIds, Cardinality(ixIds) > 0, FALSE)

\* fetchCloudflareIxIds of check.ts (192-203): no try, no status check,
\* data.data ?? []
fetchCloudflareIxIdsMem(resp) ==
  IF resp.kind = "reject" THEN IxOutcome(TRUE, {}, FALSE, FALSE)
  ELSE IF ~resp.body.parsable THEN IxOutcome(TRUE, {}, FALSE, FALSE)
  ELSE IF resp.body.dataKind = "object" THEN IxOutcome(TRUE, {}, FALSE, FALSE)
  ELSE IF resp.body.dataKind = "undefined" THEN IxOutcome(FALSE, {}, TRUE, FALSE)
  ELSE IxOutcome(FALSE, ixIdsOf(resp.body.items), TRUE, FALSE)

\* fetchIspIxData of check.ts (215-231): the same inside try / catch
fetchIspIxDataMem(resp) ==
  LET o == fetchCloudflareIxIdsMem(resp)
  IN  IF o.threw THEN IxFallback ELSE o

(***************************************************************************)
(* State.                                                                  *)
(*   evo                  which evolution of the handler is deployed       *)
(*   now, ticks           Date.now(), and how often it has advanced        *)
(*   bgpCache             Null or [data, timestamp]: the module variable    *)
(*                        bgpCache, or the KV entry ["bgp","table"] with    *)
(*                        the time it was set                              *)
(*   cfIpCache            Null or [ips, timestamp] (check.ts only)         *)
(*   ixCache              key -> Null or [ixIds, timestamp]: cfIxCache and  *)
(*                        ispIxCache, or the KV entries under "peeringdb"  *)
(*   ispIxCacheTimestamp  the one timestamp of ispIxCache (check.ts only)  *)
(*   resultCache          key -> Null or [value, timestamp]: KV "result"    *)
(*   reqs                 the requests in flight, by slot                  *)
(*   aggIn, aggOut        input and output of one aggregation run, or of   *)
(*                        one run of the line parser                       *)
(*   ixLast               key -> Null or [ixIds]: the set last stored under *)
(*                        the key, kept when the entry expires (history)   *)
(*   dash                 the signals of the dashboard island and the      *)
(*                        calls of its handlers that are in flight         *)
(***************************************************************************)
Evolutions == {"mem", "kv", "multi"}

ReqIds == 1..MaxReq

\* the ASNs the parameters of AsnParams parse to
QueryAsns == {parseInt(p.text).value : p \in {q \in AsnParams : ~parseInt(q.text).nan}}

CfIxKey == <<"peeringdb", "cf">>
IspIxKey(asn) == <<"peeringdb", "isp", asn>>
AsnIxKey(asn) == <<"peeringdb", "asn", asn>>

\* the keys an evolution uses
IxKeys(e) ==
  IF e = "multi" THEN {AsnIxKey(NETWORKS[i].asn) : i \in DOMAIN NETWORKS}
  ELSE {CfIxKey} \cup {IspIxKey(a) : a \in QueryAsns}

ResultKey(asn) == <<"result", asn>>
MultiResultKey == <<"result", "v4">>

ResultKeys(e) ==
  IF e = "multi" THEN {MultiResultKey} ELSE {ResultKey(a) : a \in QueryAsns}

\* the membership fetches a request makes: the target network and the queried
\* ASN, or one per network
NumIx(e) == IF e = "multi" THEN Len(NETWORKS) ELSE 2

IxKeyOf(e, i, asn) ==
  IF e = "multi" THEN AsnIxKey(NETWORKS[i].asn)
  ELSE IF i = 1 THEN CfIxKey
  ELSE IspIxKey(asn)

ResultKeyOf(e, asn) == IF e = "multi" THEN MultiResultKey ELSE ResultKey(asn)

NoError == [text |-> "", status |-> 0]

\* one of the promises handed to Promise.all
NoBgpTask == [st |-> "none", at |-> 0, val |-> <<>>, err |-> NoError]
NoIxTask == [st |-> "none", at |-> 0, val |-> {}, err |-> NoError]
NoIpsTask == [st |-> "none", at |-> 0, val |-> NoIps, err |-> NoError]

NoGets == [bgp |-> 0, ix |-> 0, ips |-> 0]

IdleReq ==
  [pc |-> "idle", param |-> NoParam, asn |-> 0, startTime |-> 0,
   ips |-> NoIpsTask, bgp |-> NoBgpTask, ix |-> <<>>,
   result |-> Null, queryTime |-> 0, resp |-> Null,
   \* bookkeeping of what the request did
   \* gets: requests sent per upstream; writes: caches written; bgpHttp: the
   \* status bgp.tools answered with (0: no answer); ixBad: the membership
   \* fetches PeeringDB gave no usable answer to; ixWrote: those that stored
   gets |-> NoGets, writes |-> {}, lateWrites |-> {}, bgpHttp |-> 0,
   ixBad |-> {}, ixWrote |-> {},
   aggregated |-> FALSE, bgpSeen |-> [had |-> FALSE, age |-> 0, hit |-> FALSE],
   ixSeen |-> <<>>, resultSeen |-> FALSE]

\* the island after its first render (NetworkMonitor.tsx:122-131): the
\* signals, the checkSingleIsp calls in flight (single) and the one
\* checkAllIsps run (all)
NoCall == [pc |-> "idle", asn |-> 0]

\* null of the signals that hold an ASN, and of the error message
NoAsn == 0
NoMessage == ""

DashIdle ==
  [withFilter |-> TRUE,
   listPc |-> "fetch",
   isps |-> <<>>,
   results |-> <<>>,
   loadingAsn |-> NoAsn,
   loadingAll |-> FALSE,
   error |-> NoMessage,
   selectedAsn |-> NoAsn,
   selectedResult |-> Null,
   filterCountry |-> "all",
   single |-> <<>>,
   all |-> [pc |-> "idle", list |-> <<>>, idx |-> 0,
            requested |-> <<>>, skipped |-> <<>>,
            last |-> "", filterChanged |-> FALSE]]

NoAggIn ==
  [targetAsn |-> 0, cfIps |-> NoIps, bgpTable |-> <<>>, ix |-> <<>>]

Init ==
  /\ evo \in Evolutions
  /\ now = 0
  /\ ticks = 0
  /\ bgpCache = Null
  /\ cfIpCache = Null
  /\ ixCache = [k \in IxKeys(evo) |-> Null]
  /\ ispIxCacheTimestamp = 0
  /\ resultCache = [k \in ResultKeys(evo) |-> Null]
  /\ reqs = [r \in ReqIds |-> IdleReq]
  /\ aggIn = NoAggIn
  /\ aggOut = Null
  /\ ixLast = [k \in IxKeys(evo) |-> Null]
  /\ dash = DashIdle

(***************************************************************************)
(* Responses.  fields is the set of keys of the JSON body.                 *)
(***************************************************************************)
Response(status, success, fields, result, queryTime, error) ==
  [status |-> status, success |-> success, fields |-> fields,
   result |-> result, queryTime |-> queryTime, error |-> error, isps |-> <<>>]

\* Response.json({ success: true, isps: ISP_LIST })
IspListResponse ==
  [Response(200, TRUE, {"success", "isps"}, Null, 0, NoError) EXCEPT !.isps = ISP_LIST]

InvalidAsnResponse ==
  Response(400, FALSE, {"success", "error"}, Null, 0,
           [text |-> "Invalid ASN", status |-> 0])

\* the catch block of the handlers
CheckFailedResponse(err) ==
  Response(500, FALSE, {"success", "error"}, Null, 0, err)

CachedFields(e) ==
  IF e = "multi" THEN {"success", "ixps", "bgp", "cfIxpsGlobal", "queryTime", "cached"}
  ELSE {"success", "result", "queryTime", "cached"}

ComputedFields(e) ==
  IF e = "multi" THEN {"success", "ixps", "bgp", "cfIxpsGlobal", "queryTime"}
  ELSE IF e = "kv" THEN {"success", "result", "queryTime", "bgpTableSize"}
  ELSE {"success", "result", "queryTime", "cloudflare", "bgpTableSize"}

(***************************************************************************)
(* The promises of one request.                                            *)
(***************************************************************************)
\* a settled promise: the local `now` of the fetcher is gone with its frame
OkTask(task, val) == [task EXCEPT !.st = "ok", !.val = val, !.at = 0]
\* a fetch in flight; at is the Date.now() the in-memory fetchers took before
\* it (0 in the KV fetchers, which take none)
NetTask(task, at) == [task EXCEPT !.st = "net", !.at = at]
GetTask(task) == [task EXCEPT !.st = "get"]
ErrTask(task, err) == [task EXCEPT !.st = "err", !.err = err, !.at = 0]

Pending(task) == task.st \in {"get", "net"}

InFlight(r) ==
  \/ Pending(r.ips)
  \/ Pending(r.bgp)
  \/ \E i \in DOMAIN r.ix : Pending(r.ix[i])

\* aggregation as soon as the route table is there
AllOkBgpOnly(e, r) == r.bgp.st = "ok"

\* await Promise.all([...]) resolves: every promise of the array has resolved
AllOk(e, r) ==
  /\ r.bgp.st = "ok"
  /\ \A i \in DOMAIN r.ix : r.ix[i].st = "ok"
  /\ e = "mem" => r.ips.st = "ok"

\* a rejection of the route-table fetch alone reaches the catch block
RejectedBgpOnly(r) == r.bgp.st = "err"

\* Promise.all rejects: one of its promises has rejected
Rejected(r) ==
  \/ r.ips.st = "err"
  \/ r.bgp.st = "err"
  \/ \E i \in DOMAIN r.ix : r.ix[i].st = "err"

\* the reason Promise.all rejects with; a request answers at its first rejection
RejectionOf(r) ==
  IF r.bgp.st = "err" THEN r.bgp.err
  ELSE IF r.ips.st = "err" THEN r.ips.err
  ELSE r.ix[CHOOSE i \in DOMAIN r.ix : r.ix[i].st = "err"].err

TypeErrorOf == [text |-> "TypeError", status |-> 0]

\* a slot can take a new request when the last one has answered and none of
\* its promises is still running
SlotFree(r) == r.pc \in {"idle", "done"} /\ ~InFlight(r)

\* the promise as the handler's frame leaves it: still running, or settled
\* with its value out of reach
Dropped(task, none) == IF Pending(task) THEN task ELSE [none EXCEPT !.st = task.st]

\* return Response.json(...): the handler's locals go with its frame
Forgotten(r) ==
  [r EXCEPT !.startTime = 0, !.result = Null,
            !.ips = Dropped(@, NoIpsTask), !.bgp = Dropped(@, NoBgpTask),
            !.ix = [i \in DOMAIN @ |-> Dropped(@[i], NoIxTask)]]

Respond(r, resp) == Forgotten([r EXCEPT !.pc = "done", !.resp = resp])

ixSets(r) == [i \in DOMAIN r.ix |-> r.ix[i].val]

\* the code after Promise.all resolved, up to the response or the kv.set of
\* the report (part_000:261-374, 599-677; check.ts:294-407)
Aggregate(e, r, t) ==
  IF AggregationThrows(r.bgp.val)
  THEN Respond(r, CheckFailedResponse(TypeErrorOf))
  ELSE IF e = "mem"
  THEN LET result == OfficialCheckResult(r.asn, r.ips.val, r.bgp.val, r.ix[1].val,
                       [ixIds |-> r.ix[2].val, ixCount |-> Cardinality(r.ix[2].val)])
       IN  Respond([r EXCEPT !.aggregated = TRUE, !.result = result,
                             !.queryTime = t - r.startTime],
                   Response(200, TRUE, ComputedFields(e), result,
                            t - r.startTime, NoError))
  ELSE IF e = "kv"
  THEN [r EXCEPT !.aggregated = TRUE, !.pc = "resultSet",
                 !.queryTime = t - r.startTime,
                 !.result = IspCheckResult(r.asn, r.bgp.val, r.ix[1].val,
                              [ixIds |-> r.ix[2].val,
                               ixCount |-> Cardinality(r.ix[2].val)])]
  ELSE LET result == CheckResult(r.bgp.val, ixSets(r))
       IN  IF Cardinality(r.ix[1].val) > 0
           THEN [r EXCEPT !.aggregated = TRUE, !.pc = "resultSet", !.result = result]
           ELSE Respond([r EXCEPT !.aggregated = TRUE, !.result = result,
                                  !.queryTime = t - r.startTime],
                        Response(200, TRUE, ComputedFields(e), result,
                                 t - r.startTime, NoError))

\* what the handler does when one of its promises settles: nothing while others
\* are pending, the catch block at the first rejection, aggregation when all
\* have resolved
Settle(e, r, t) ==
  IF r.pc = "done" THEN Forgotten(r)
  ELSE IF r.pc # "fetching" THEN r
  ELSE IF Rejected(r) THEN Respond(r, CheckFailedResponse(RejectionOf(r)))
  ELSE IF AllOk(e, r) THEN Aggregate(e, r, t)
  ELSE r

\* a cache write of request r, noted as late when r has answered already
NoteWrite(r, cache) ==
  [r EXCEPT !.writes = @ \cup {cache},
            !.lateWrites = IF r.pc = "done" THEN @ \cup {cache} ELSE @]

(***************************************************************************)
(* Cache lookups.                                                          *)
(***************************************************************************)
CacheEntry(value, t) == [value |-> value, timestamp |-> t]

\* what a lookup saw: whether an entry was held, its age, and whether it was used
Seen(entry, t, hit) ==
  [had |-> entry # Null,
   age |-> IF entry # Null THEN t - entry.timestamp ELSE 0,
   hit |-> hit]

\* a membership lookup also notes the set last stored under its key
SeenIx(entry, stamp, t, hit, last) ==
  [had |-> entry # Null,
   age |-> IF entry # Null THEN t - stamp ELSE 0,
   hit |-> hit,
   last |-> last]

\* bgpCache && now - bgpCache.timestamp < 1800_000 with <= for <
bgpFreshInclusive(cache, t) == cache # Null /\ t - cache.timestamp <= BGP_CACHE_TTL

\* bgpCache && now - bgpCache.timestamp < BGP_CACHE_TTL (check.ts:157, part_000:463)
bgpFresh(cache, t) == cache # Null /\ t - cache.timestamp < BGP_CACHE_TTL

\* cfIpCache && now - cfIpCache.timestamp < 3600_000 (check.ts:127)
cfIpFresh(cache, t) == cache # Null /\ t - cache.timestamp < MEM_CACHE_TTL

\* cfIxCache && now - cfIxCache.timestamp < 3600_000 (check.ts:188)
cfIxFresh(cache, t) == cache # Null /\ t - cache.timestamp < MEM_CACHE_TTL

\* cached && now - ispIxCacheTimestamp < 3600_000 (check.ts:210-211)
ispIxFresh(cache, stamp, t) == cache # Null /\ t - stamp < MEM_CACHE_TTL

\* a lookup that never takes the cached value
kvHitNever(entry) == FALSE

\* if (cached.value) after kv.get: an array or an object, so any entry held
kvHit(entry) == entry # Null

\* the entry may be deleted once expireIn has passed since kv.set
kvExpired(entry, ttl, t) == entry # Null /\ t - entry.timestamp >= ttl

(***************************************************************************)
(* Time.                                                                   *)
(***************************************************************************)
\* the steps Date.now() advances by: inside the shortest time to live, exactly
\* that time to live, and the time to live of the membership caches
TickSteps(e) ==
  {BGP_CACHE_TTL \div 2, BGP_CACHE_TTL,
   IF e = "mem" THEN MEM_CACHE_TTL ELSE PEERINGDB_CACHE_TTL}

Tick(d) ==
  /\ ticks < MaxTicks
  /\ now' = now + d
  /\ ticks' = ticks + 1
  /\ UNCHANGED <<evo, bgpCache, cfIpCache, ixCache, ispIxCacheTimestamp,
                 resultCache, reqs, aggIn, aggOut, ixLast, dash>>

\* Deno KV drops an entry some time after its expireIn has passed
ExpireBgp ==
  /\ evo = "kv"
  /\ kvExpired(bgpCache, BGP_CACHE_TTL, now)
  /\ bgpCache' = Null
  /\ UNCHANGED <<evo, now, ticks, cfIpCache, ixCache, ispIxCacheTimestamp,
                 resultCache, reqs, aggIn, aggOut, ixLast, dash>>

ExpireIx(k) ==
  /\ evo \in {"kv", "multi"}
  /\ kvExpired(ixCache[k], PEERINGDB_CACHE_TTL, now)
  /\ ixCache' = [ixCache EXCEPT ![k] = Null]
  /\ UNCHANGED <<evo, now, ticks, bgpCache, cfIpCache, ispIxCacheTimestamp,
                 resultCache, reqs, aggIn, aggOut, ixLast, dash>>

ExpireResult(k) ==
  /\ evo \in {"kv", "multi"}
  /\ kvExpired(resultCache[k], RESULT_CACHE_TTL, now)
  /\ resultCache' = [resultCache EXCEPT ![k] = Null]
  /\ UNCHANGED <<evo, now, ticks, bgpCache, cfIpCache, ixCache,
                 ispIxCacheTimestamp, reqs, aggIn, aggOut, ixLast, dash>>

(***************************************************************************)
(* handler.GET up to its first await.                                      *)
(***************************************************************************)
NewReq(p) ==
  [IdleReq EXCEPT !.param = p, !.startTime = now,
                  !.asn = IF IsFalsyParam(p) THEN 0 ELSE parseInt(p.text).value]

\* fetchBgpTable up to its await fetch(...), on the in-memory cache
StartBgpMem(r) ==
  LET hit == bgpFresh(bgpCache, now)
  IN  [r EXCEPT !.bgp = IF hit THEN OkTask(@, bgpCache.value) ELSE NetTask(@, now),
                !.bgpSeen = Seen(bgpCache, now, hit),
                !.gets.bgp = IF hit THEN @ ELSE @ + 1]

\* the four fetchers of check.ts, each run up to its first await
StartFetchesMem(r) ==
  LET ipsHit == cfIpFresh(cfIpCache, now)
      cfHit == cfIxFresh(ixCache[CfIxKey], now)
      ispEntry == ixCache[IspIxKey(r.asn)]
      ispHit == ispIxFresh(ispEntry, ispIxCacheTimestamp, now)
      r1 == StartBgpMem(r)
  IN  [r1 EXCEPT
         !.pc = "fetching",
         !.ips = IF ipsHit THEN OkTask(@, cfIpCache.value) ELSE NetTask(@, now),
         !.ix = << IF cfHit THEN OkTask(NoIxTask, ixCache[CfIxKey].value)
                   ELSE NetTask(NoIxTask, now),
                   IF ispHit THEN OkTask(NoIxTask, ispEntry.value)
                   ELSE NetTask(NoIxTask, now) >>,
         !.ixSeen = << SeenIx(ixCache[CfIxKey],
                              IF ixCache[CfIxKey] # Null
                              THEN ixCache[CfIxKey].timestamp ELSE 0,
                              now, cfHit, ixLast[CfIxKey]),
                       SeenIx(ispEntry, ispIxCacheTimestamp, now, ispHit,
                              ixLast[IspIxKey(r.asn)]) >>,
         !.gets.ips = IF ipsHit THEN @ ELSE @ + 2,
         !.gets.ix = @ + (IF cfHit THEN 0 ELSE 1) + (IF ispHit THEN 0 ELSE 1)]

\* GET /api/check of check.ts, to the first await (check.ts:264-292)
GetMem(r, p) ==
  /\ evo = "mem"
  /\ SlotFree(reqs[r])
  /\ reqs' = [reqs EXCEPT ![r] =
       IF IsFalsyParam(p) THEN Respond(NewReq(p), IspListResponse)
       ELSE IF parseInt(p.text).nan THEN Respond(NewReq(p), InvalidAsnResponse)
       ELSE Settle("mem", StartFetchesMem(NewReq(p)), now)]
  /\ UNCHANGED <<evo, now, ticks, bgpCache, cfIpCache, ixCache,
                 ispIxCacheTimestamp, resultCache, aggIn, aggOut, ixLast, dash>>

\* GET /api/check of the regional-peering evolution, to await kv.get of the
\* cached result (part_000:220-243)
GetKv(r, p) ==
  /\ evo = "kv"
  /\ SlotFree(reqs[r])
  /\ reqs' = [reqs EXCEPT ![r] =
       IF IsFalsyParam(p) THEN Respond(NewReq(p), IspListResponse)
       ELSE IF parseInt(p.text).nan THEN Respond(NewReq(p), InvalidAsnResponse)
       ELSE [NewReq(p) EXCEPT !.pc = "resultGet"]]
  /\ UNCHANGED <<evo, now, ticks, bgpCache, cfIpCache, ixCache,
                 ispIxCacheTimestamp, resultCache, aggIn, aggOut, ixLast, dash>>

\* GET of the multi-network evolution, to await kv.get (part_000:577-582)
GetMulti(r) ==
  /\ evo = "multi"
  /\ SlotFree(reqs[r])
  /\ reqs' = [reqs EXCEPT ![r] = [NewReq(NoParam) EXCEPT !.pc = "resultGet"]]
  /\ UNCHANGED <<evo, now, ticks, bgpCache, cfIpCache, ixCache,
                 ispIxCacheTimestamp, resultCache, aggIn, aggOut, ixLast, dash>>

\* the calls inside Promise.all([...]) after a miss of the report cache, each
\* fetcher run up to its first await
StartFetchesKv(e, r) ==
  LET r1 == IF e = "multi" THEN StartBgpMem(r)
            ELSE [r EXCEPT !.bgp = GetTask(@)]
  IN  [r1 EXCEPT !.pc = "fetching",
                 !.ix = [i \in 1..NumIx(e) |-> GetTask(NoIxTask)],
                 !.ixSeen = [i \in 1..NumIx(e) |-> SeenIx(Null, 0, now, FALSE, Null)]]

\* result: cachedResult, the KV entry itself in place of its value
cachedResultEntry(entry) == entry

\* result: cachedResult.value
cachedResultValue(entry) == entry.value

\* kv.get(["result", ...]) answers: the cached report is returned, or the
\* fetches start (part_000:243-259, 582-597)
ResultGet(r) ==
  LET q == reqs[r]
      entry == resultCache[ResultKeyOf(evo, q.asn)]
  IN  /\ evo \in {"kv", "multi"}
      /\ q.pc = "resultGet"
      /\ reqs' = [reqs EXCEPT ![r] =
           IF kvHit(entry)
           THEN Respond([q EXCEPT !.resultSeen = TRUE,
                                  !.result = cachedResultValue(entry),
                                  !.queryTime = now - q.startTime],
                        Response(200, TRUE, CachedFields(evo),
                                 cachedResultValue(entry),
                                 now - q.startTime, NoError))
           ELSE StartFetchesKv(evo, q)]
      /\ UNCHANGED <<evo, now, ticks, bgpCache, cfIpCache, ixCache,
                     ispIxCacheTimestamp, resultCache, aggIn, aggOut, ixLast,
                     dash>>

(***************************************************************************)
(* fetchBgpTable.                                                          *)
(***************************************************************************)
\* the KV evolution's kv.get(["bgp","table"]) answers (part_000:72-79)
BgpGet(r) ==
  LET q == reqs[r]
      hit == kvHit(bgpCache)
      q1 == [q EXCEPT !.bgp = IF hit THEN OkTask(@, bgpCache.value)
                              ELSE NetTask(@, 0),
                      !.bgpSeen = Seen(bgpCache, now, hit),
                      !.gets.bgp = IF hit THEN @ ELSE @ + 1]
  IN  /\ evo = "kv"
      /\ q.bgp.st = "get"
      /\ reqs' = [reqs EXCEPT ![r] = Settle(evo, q1, now)]
      /\ UNCHANGED <<evo, now, ticks, bgpCache, cfIpCache, ixCache,
                     ispIxCacheTimestamp, resultCache, aggIn, aggOut, ixLast,
                     dash>>

\* a 503 taken for a table: the check of response.ok left out
bgpFailedOnReject(resp) == resp.kind = "reject"

\* fetch rejected, or if (!response.ok) throw
bgpFailed(resp) == resp.kind = "reject" \/ ~resp.ok

bgpError(resp) ==
  IF resp.kind = "reject" THEN [text |-> "fetch failed", status |-> 0]
  ELSE [text |-> "bgp.tools returned", status |-> resp.status]

\* the new table stored under the timestamp of the entry it replaces
bgpStoreTimeKept(e, task, t) == IF bgpCache = Null THEN t ELSE bgpCache.timestamp

\* the timestamp the table is stored with: the Date.now() taken before the
\* fetch in the in-memory evolutions, the time of kv.set in the KV one
bgpStoreTime(e, task, t) == IF e = "kv" THEN t ELSE task.at

\* await kv.set(["bgp", "table"], entries, ...) rejects: the value is over the
\* size Deno KV takes (part_000:98; the in-memory cache has no such limit)
kvSetThrows(e, resp) == e = "kv" /\ resp.big

kvSetError == [text |-> "Value too large", status |-> 0]

\* bgp.tools answers: throw on a failure, else parse, store, return
\* (check.ts:161-183, part_000:77-99, 467-489)
BgpResponse(r, resp) ==
  LET q == reqs[r]
      failed == bgpFailed(resp)
      storeThrew == ~failed /\ kvSetThrows(evo, resp)
      entries == parseTable(resp.body)
      q0 == [q EXCEPT !.bgpHttp = resp.status]
      q1 == IF failed THEN [q0 EXCEPT !.bgp = ErrTask(@, bgpError(resp))]
            ELSE IF storeThrew THEN [q0 EXCEPT !.bgp = ErrTask(@, kvSetError)]
            ELSE NoteWrite([q0 EXCEPT !.bgp = OkTask(@, entries)], "bgp")
  IN  /\ q.bgp.st = "net"
      /\ bgpCache' = IF failed \/ storeThrew THEN bgpCache
                     ELSE CacheEntry(entries, bgpStoreTime(evo, q.bgp, now))
      /\ reqs' = [reqs EXCEPT ![r] = Settle(evo, q1, now)]
      /\ UNCHANGED <<evo, now, ticks, cfIpCache, ixCache, ispIxCacheTimestamp,
                     resultCache, aggIn, aggOut, ixLast, dash>>

(***************************************************************************)
(* The membership fetchers.                                                *)
(***************************************************************************)
\* kv.get(["peeringdb", ...]) answers (part_000:103-112, 138-147, 493-506)
IxGet(r, i) ==
  LET q == reqs[r]
      entry == ixCache[IxKeyOf(evo, i, q.asn)]
      hit == kvHit(entry)
      q1 == [q EXCEPT !.ix[i] = IF hit THEN OkTask(@, entry.value)
                                ELSE NetTask(@, 0),
                      !.ixSeen[i] = SeenIx(entry,
                                           IF entry # Null THEN entry.timestamp
                                           ELSE 0,
                                           now, hit, ixLast[IxKeyOf(evo, i, q.asn)]),
                      !.gets.ix = IF hit THEN @ ELSE @ + 1]
  IN  /\ evo \in {"kv", "multi"}
      /\ i \in DOMAIN q.ix
      /\ q.ix[i].st = "get"
      /\ reqs' = [reqs EXCEPT ![r] = Settle(evo, q1, now)]
      /\ UNCHANGED <<evo, now, ticks, bgpCache, cfIpCache, ixCache,
                     ispIxCacheTimestamp, resultCache, aggIn, aggOut, ixLast,
                     dash>>

\* which fetcher runs for promise i of a request
ixOutcomeOf(e, i, resp) ==
  IF e = "kv" THEN fetchIxKv(resp)
  ELSE IF e = "multi" THEN fetchAsnIxIds(resp)
  ELSE IF i = 1 THEN fetchCloudflareIxIdsMem(resp)
  ELSE fetchIspIxDataMem(resp)

\* the timestamp stored with a membership set
ixStoreTime(e, task, t) == IF e = "mem" THEN task.at ELSE t

\* PeeringDB answers (check.ts:192-203, 215-231; part_000:108-132, 143-167,
\* 498-530)
IxResponse(r, i, resp) ==
  LET q == reqs[r]
      key == IxKeyOf(evo, i, q.asn)
      o == ixOutcomeOf(evo, i, resp)
      q1 == IF o.threw
            THEN [q EXCEPT !.ix[i] = ErrTask(@, [text |-> "registry", status |-> 0])]
            ELSE [q EXCEPT !.ix[i] = OkTask(@, o.ixIds)]
      q2 == [q1 EXCEPT !.ixBad = IF RegistryUnavailable(resp) THEN @ \cup {i} ELSE @]
      q3 == IF o.write THEN NoteWrite([q2 EXCEPT !.ixWrote = @ \cup {i}], "ix")
            ELSE q2
  IN  /\ i \in DOMAIN q.ix
      /\ q.ix[i].st = "net"
      /\ ixCache' = IF o.write
                    THEN [ixCache EXCEPT ![key] =
                            CacheEntry(o.ixIds, ixStoreTime(evo, q.ix[i], now))]
                    ELSE ixCache
      /\ ispIxCacheTimestamp' = IF o.write /\ evo = "mem" /\ i = 2
                                THEN q.ix[i].at
                                ELSE ispIxCacheTimestamp
      /\ ixLast' = IF o.write THEN [ixLast EXCEPT ![key] = [ixIds |-> o.ixIds]]
                    ELSE ixLast
      /\ reqs' = [reqs EXCEPT ![r] = Settle(evo, q3, now)]
      /\ UNCHANGED <<evo, now, ticks, bgpCache, cfIpCache, resultCache,
                     aggIn, aggOut, dash>>

\* cloudflare.com/ips-v4 and ips-v6 answer (check.ts:131-152)
IpsResponse(r, resp) ==
  LET q == reqs[r]
      failed == resp.kind = "reject"
      q1 == IF failed
            THEN [q EXCEPT !.ips = ErrTask(@, [text |-> "fetch failed", status |-> 0])]
            ELSE NoteWrite([q EXCEPT !.ips = OkTask(@, resp.ips)], "ips")
  IN  /\ q.ips.st = "net"
      /\ cfIpCache' = IF failed THEN cfIpCache ELSE CacheEntry(resp.ips, q.ips.at)
      /\ reqs' = [reqs EXCEPT ![r] = Settle(evo, q1, now)]
      /\ UNCHANGED <<evo, now, ticks, bgpCache, ixCache, ispIxCacheTimestamp,
                     resultCache, aggIn, aggOut, ixLast, dash>>

(***************************************************************************)
(* The report cache write and the response after it (part_000:372-381,     *)
(* 672-684).                                                               *)
(***************************************************************************)
ResultSet(r) ==
  LET q == reqs[r]
      elapsed == IF evo = "kv" THEN q.queryTime ELSE now - q.startTime
  IN  /\ q.pc = "resultSet"
      /\ resultCache' = [resultCache EXCEPT ![ResultKeyOf(evo, q.asn)] =
                           CacheEntry(q.result, now)]
      /\ reqs' = [reqs EXCEPT ![r] =
           Respond(NoteWrite([q EXCEPT !.queryTime = elapsed], "result"),
                   Response(200, TRUE, ComputedFields(evo), q.result, elapsed,
                            NoError))]
      /\ UNCHANGED <<evo, now, ticks, bgpCache, cfIpCache, ixCache,
                     ispIxCacheTimestamp, aggIn, aggOut, ixLast, dash>>

Next ==
  \/ \E d \in TickSteps(evo) : Tick(d)
  \/ ExpireBgp
  \/ \E k \in DOMAIN ixCache : ExpireIx(k)
  \/ \E k \in DOMAIN resultCache : ExpireResult(k)
  \/ \E r \in ReqIds, p \in AsnParams : GetMem(r, p)
  \/ \E r \in ReqIds, p \in AsnParams : GetKv(r, p)
  \/ \E r \in ReqIds : GetMulti(r)
  \/ \E r \in ReqIds : ResultGet(r)
  \/ \E r \in ReqIds : BgpGet(r)
  \/ \E r \in ReqIds, resp \in BgpResponses : BgpResponse(r, resp)
  \/ \E r \in ReqIds, i \in 1..NumIx(evo) : IxGet(r, i)
  \/ \E r \in ReqIds, i \in 1..NumIx(evo), resp \in RegistryResponses :
       IxResponse(r, i, resp)
  \/ \E r \in ReqIds, resp \in IpsResponses : IpsResponse(r, resp)
  \/ \E r \in ReqIds : ResultSet(r)

Spec == Init /\ [][Next]_vars

(***************************************************************************)
(* The aggregation on its own: the report computed from given inputs, for  *)
(* the two handlers that score one ISP.                                    *)
(***************************************************************************)
\* longest route table handed to the aggregation
MaxTableLen == 3

\* a more specific of 104.16.0.0/13, seen by few collectors
EntrySpecific == BgpEntry(V4(104, 17, 0, 0, 16), CLOUDFLARE_AS, 900)

AggEntries == {EntryLow, EntryMid, EntryHigh, EntryOther, EntrySpecific}

AggTables == UNION {[1..k -> AggEntries] : k \in 0..MaxTableLen}

\* an ISP of the Netherlands, one of Belgium, and an ASN that is not listed
AggAsns == {1136, 5432, 64512}

AggIxSets == SUBSET {26, 59} \cup {{26, 31, 59, 297}}

\* entries seen by as many collectors as a bucket's lower bound, and by one less
BoundaryEntries ==
  { BgpEntry(V4(104, 16, 0, 0, 13), CLOUDFLARE_AS, h) :
      h \in {499, 500, 999, 1000, 1999, 2000, 2999, 3000} }

BoundaryTables == UNION {[1..k -> BoundaryEntries] : k \in 1..2}

\* tables with one more low-visibility entry than the reported list keeps,
\* and a table of 80 entries of which one is of low visibility
WideTables ==
  { [i \in 1..(LOW_VIS_LIMIT + 1) |-> EntryLow],
    [i \in 1..(LOW_VIS_LIMIT + 1) |->
       IF i = LOW_VIS_LIMIT + 1 THEN EntryLow ELSE EntrySpecific],
    [i \in 1..80 |-> IF i = 1 THEN EntryLow ELSE EntryHigh] }

AggInputs(e) ==
  [targetAsn : AggAsns,
   cfIps : IF e = "mem" THEN {OfficialIps, NoIps} ELSE {NoIps},
   bgpTable : AggTables,
   ix : AggIxSets \X AggIxSets]
  \cup
  [targetAsn : {1136},
   cfIps : {NoIps},
   bgpTable : BoundaryTables \cup WideTables,
   ix : {<<{26}, {26}>>, <<{26, 59}, {26, 59}>>}]

AggInit ==
  /\ evo \in {"kv", "mem"}
  /\ now = 0
  /\ ticks = 0
  /\ bgpCache = Null
  /\ cfIpCache = Null
  /\ ixCache = [k \in IxKeys(evo) |-> Null]
  /\ ispIxCacheTimestamp = 0
  /\ resultCache = [k \in ResultKeys(evo) |-> Null]
  /\ reqs = [r \in ReqIds |-> IdleReq]
  /\ aggIn \in AggInputs(evo)
  /\ aggOut = Null
  /\ ixLast = [k \in IxKeys(evo) |-> Null]
  /\ dash = DashIdle

\* part_000:261-370 on the inputs
AggregateRegional ==
  /\ evo = "kv"
  /\ aggOut = Null
  /\ aggOut' = IspCheckResult(aggIn.targetAsn, aggIn.bgpTable, aggIn.ix[1],
                  [ixIds |-> aggIn.ix[2], ixCount |-> Cardinality(aggIn.ix[2])])
  /\ UNCHANGED <<evo, now, ticks, bgpCache, cfIpCache, ixCache,
                 ispIxCacheTimestamp, resultCache, reqs, aggIn, ixLast, dash>>

\* check.ts:294-391 on the inputs
AggregateOfficial ==
  /\ evo = "mem"
  /\ aggOut = Null
  /\ aggOut' = OfficialCheckResult(aggIn.targetAsn, aggIn.cfIps, aggIn.bgpTable,
                  aggIn.ix[1],
                  [ixIds |-> aggIn.ix[2], ixCount |-> Cardinality(aggIn.ix[2])])
  /\ UNCHANGED <<evo, now, ticks, bgpCache, cfIpCache, ixCache,
                 ispIxCacheTimestamp, resultCache, reqs, aggIn, ixLast, dash>>

AggNext == AggregateRegional \/ AggregateOfficial

AggSpec == AggInit /\ [][AggNext]_vars

(***************************************************************************)
(* Properties of the score.                                                *)
(***************************************************************************)
\* C1: the score of a report is an integer from 0 to 100, under the
\* regional-peering formula and under the official-prefix formula
C1_ScoreInRange == aggOut # Null => aggOut.score \in 0..100

\* a report of the regional-peering handler that reaches the top of the range
C1_Witness ==
  /\ aggOut # Null
  /\ evo = "kv"
  /\ aggIn.bgpTable # <<>>
  /\ aggOut.score = 100

(***************************************************************************)
(* Properties of the route table fetch.                                    *)
(***************************************************************************)
\* C2: when bgp.tools answers a lookup of the KV handlers with a non-success
\* status, the request has answered with the 500 failure envelope that carries
\* that status and no report, and has written neither the route-table cache
\* nor the report cache
C2_RouteTableFailureFailsRequest ==
  \A r \in ReqIds :
    LET q == reqs[r]
    IN  (evo \in {"kv", "multi"} /\ q.bgpHttp \notin {0, 200}) =>
          /\ q.pc = "done"
          /\ q.resp.status = 500
          /\ ~q.resp.success
          /\ q.resp.error.status = q.bgpHttp
          /\ q.resp.result = Null
          /\ "result" \notin q.resp.fields
          /\ q.writes \cap {"bgp", "result"} = {}

\* a request of the multi-network handler that found a stale table, asked
\* bgp.tools and got a 503
C2_Witness ==
  \E r \in ReqIds :
    /\ evo = "multi"
    /\ reqs[r].pc = "done"
    /\ reqs[r].bgpHttp = 503
    /\ reqs[r].bgpSeen.had
    /\ ~reqs[r].bgpSeen.hit
    /\ bgpCache # Null

\* C9: a lookup of the in-memory route table returns the cached table, with no
\* request to bgp.tools, exactly when that table was fetched less than 30
\* minutes before; every other lookup sends exactly one GET
C9_RouteTableFreshness ==
  \A r \in ReqIds :
    LET q == reqs[r]
    IN  (evo \in {"mem", "multi"} /\ q.bgp.st # "none") =>
          /\ q.bgpSeen.hit <=> (q.bgpSeen.had /\ q.bgpSeen.age < 30 * 60 * 1000)
          /\ q.gets.bgp = IF q.bgpSeen.hit THEN 0 ELSE 1

\* a lookup served from a table fetched some time, but less than 30 minutes, ago
C9_Witness ==
  \E r \in ReqIds :
    /\ evo \in {"mem", "multi"}
    /\ reqs[r].bgp.st = "ok"
    /\ reqs[r].bgpSeen.hit
    /\ reqs[r].bgpSeen.age > 0
    /\ reqs[r].gets.bgp = 0

(***************************************************************************)
(* Properties of the report cache.                                         *)
(***************************************************************************)
\* C5: when the lookup of the report cache finds a report, the request answers
\* with that report, sends no upstream request, runs no aggregation and writes
\* no cache
C5_CachedReportReturnedUntouched ==
  [][\A r \in ReqIds :
       (/\ reqs[r].pc = "resultGet"
        /\ reqs'[r].pc # "resultGet"
        /\ resultCache[ResultKeyOf(evo, reqs[r].asn)] # Null)
         => /\ reqs'[r].pc = "done"
            /\ reqs'[r].resp.status = 200
            /\ reqs'[r].resp.success
            /\ reqs'[r].resp.result = resultCache[ResultKeyOf(evo, reqs[r].asn)].value
            /\ reqs'[r].gets = NoGets
            /\ ~reqs'[r].aggregated
            /\ reqs'[r].writes = {}
            /\ UNCHANGED <<bgpCache, cfIpCache, ixCache, resultCache, dash>>]_vars

\* a request answered from the report cache
C5_Witness ==
  \E r \in ReqIds :
    /\ reqs[r].pc = "done"
    /\ reqs[r].resultSeen
    /\ reqs[r].resp.result # Null
    /\ "cached" \in reqs[r].resp.fields

\* C6: the report cache is written only by a request that computed its report,
\* and never by one whose membership fetches got no usable answer
C6_ReportCachedOnlyWhenComplete ==
  \A r \in ReqIds :
    "result" \in reqs[r].writes => reqs[r].aggregated /\ reqs[r].ixBad = {}

(***************************************************************************)
(* Properties of the membership fetches.                                   *)
(***************************************************************************)
\* C3: a request whose only failing upstream is the IXP registry answers with
\* the success envelope, and its report counts no shared IXP
C3_RegistryFailureNeverFailsRequest ==
  \A r \in ReqIds :
    LET q == reqs[r]
    IN  (/\ q.pc = "done"
         /\ q.ixBad # {}
         /\ q.bgp.st = "ok"
         /\ q.ips.st \in {"ok", "none"}) =>
          /\ q.resp.success
          /\ evo # "multi" => q.resp.result.peering.sharedIxps = 0

\* C4: a membership lookup that finds the registry unavailable returns the set
\* last cached for its ASN before the lookup, and the empty set only when none
\* was ever cached
C4_LastCachedSetServedOnFailure ==
  \A r \in ReqIds :
    \A i \in DOMAIN reqs[r].ix :
      LET q == reqs[r]
      IN  (/\ q.pc = "fetching"
           /\ q.ix[i].st = "ok"
           /\ i \in q.ixBad) =>
            q.ix[i].val = IF q.ixSeen[i].last = Null THEN {}
                          ELSE q.ixSeen[i].last.ixIds

\* C7: no entry of the IXP membership cache in Deno KV holds the empty set
C7_NoEmptySetCached ==
  evo \in {"kv", "multi"} =>
    \A k \in DOMAIN ixCache : ixCache[k] # Null => ixCache[k].value # {}

\* C8: a registry answer with a non-success status, a meta.error or data that
\* is no array leaves the membership cache as it was
C8_UnusableAnswerNotCached ==
  \A r \in ReqIds : reqs[r].ixBad \cap reqs[r].ixWrote = {}

\* C10: a membership lookup for an ASN (in check.ts, the lookup of the queried
\* ISP) that finds a set cached less than 24 hours before returns it and sends
\* no registry request
C10_CachedSetServedFor24h ==
  \A r \in ReqIds :
    \A i \in DOMAIN reqs[r].ix :
      LET q == reqs[r]
      IN  (/\ q.ix[i].st \notin {"none", "get"}
           /\ evo = "mem" => i = 2
           /\ q.ixSeen[i].had
           /\ q.ixSeen[i].age < 24 * 60 * 60 * 1000) =>
            q.ixSeen[i].hit

(***************************************************************************)
(* fetchBgpTable on its own: concurrent calls of the in-memory fetcher     *)
(* (check.ts:155-184, part_000:461-490).  The other fetchers never touch   *)
(* bgpCache, so the calls of concurrent requests interleave as these do.   *)
(* reqs holds one record per caller.                                       *)
(***************************************************************************)
\* number of calls of fetchBgpTable that can be in flight at the same time
MaxCallers == 2

Callers == 1..MaxCallers

\* a second body, so that the tables of two refreshes differ
PayloadB == << JsonLine(EntryOther), MalformedLine, JsonLine(EntryLow) >>

CallerResponses ==
  { [kind |-> "http", ok |-> TRUE, status |-> 200, body |-> p, big |-> FALSE] :
      p \in {PayloadA, PayloadB} }
  \cup { [kind |-> "http", ok |-> FALSE, status |-> 503, body |-> <<>>, big |-> FALSE] }

BgpInit ==
  /\ evo \in {"mem", "multi"}
  /\ now = 0
  /\ ticks = 0
  /\ bgpCache = Null
  /\ cfIpCache = Null
  /\ ixCache = [k \in IxKeys(evo) |-> Null]
  /\ ispIxCacheTimestamp = 0
  /\ resultCache = [k \in ResultKeys(evo) |-> Null]
  /\ reqs = [c \in Callers |-> IdleReq]
  /\ aggIn = NoAggIn
  /\ aggOut = Null
  /\ ixLast = [k \in IxKeys(evo) |-> Null]
  /\ dash = DashIdle

\* fetchBgpTable() is called and runs to its return of the cached table or to
\* its await fetch(...)
CallFetchBgpTable(c) ==
  /\ ~Pending(reqs[c].bgp)
  /\ reqs' = [reqs EXCEPT ![c] = StartBgpMem(IdleReq)]
  /\ UNCHANGED <<evo, now, ticks, bgpCache, cfIpCache, ixCache,
                 ispIxCacheTimestamp, resultCache, aggIn, aggOut, ixLast, dash>>

BgpNext ==
  \/ \E d \in TickSteps(evo) : Tick(d)
  \/ \E c \in Callers : CallFetchBgpTable(c)
  \/ \E c \in Callers, resp \in CallerResponses : BgpResponse(c, resp)

BgpSpec == BgpInit /\ [][BgpNext]_vars

(***************************************************************************)
(* Properties of concurrent requests.                                      *)
(***************************************************************************)
\* C11: every change of the route-table cache stores the whole pair of one
\* call of fetchBgpTable, the table that call returns with the time that call
\* took before its fetch, and a call that is served from the cache returns
\* the table of the pair whose timestamp it tested
C11_RouteTableCacheAtomic ==
  [][/\ bgpCache' # bgpCache =>
          \E c \in Callers :
            /\ reqs[c].bgp.st = "net"
            /\ reqs'[c].bgp.st = "ok"
            /\ bgpCache' = [value |-> reqs'[c].bgp.val,
                            timestamp |-> reqs[c].bgp.at]
     /\ \A c \in Callers :
          (~Pending(reqs[c].bgp) /\ reqs'[c] # reqs[c] /\ reqs'[c].bgpSeen.hit) =>
            /\ bgpCache # Null
            /\ reqs'[c].bgp.val = bgpCache.value
            /\ reqs'[c].bgpSeen.age = now - bgpCache.timestamp
            /\ bgpCache' = bgpCache]_vars

\* two refreshes were in flight together with different answers; the one that
\* finished last left its whole pair, stamped with the time it started
C11_Witness ==
  \E c \in Callers, d \in Callers :
    /\ c # d
    /\ reqs[c].bgp.st = "ok"
    /\ reqs[d].bgp.st = "ok"
    /\ reqs[c].gets.bgp = 1
    /\ reqs[d].gets.bgp = 1
    /\ reqs[c].bgp.val # reqs[d].bgp.val
    /\ bgpCache # Null
    /\ bgpCache.value = reqs[c].bgp.val
    /\ bgpCache.timestamp = 0
    /\ now > 0

\* C12: on a miss of the report cache the KV handlers start the route-table
\* fetch and every membership fetch in the step that leaves the lookup, before
\* any of them is awaited; the report is aggregated only in a request that is
\* waiting for them and finds all of them resolved, the report cache is written
\* only after that aggregation, and a request whose route-table fetch failed
\* aggregates nothing
C12_FetchesStartTogetherAggregationAfterAll ==
  [][\A r \in ReqIds :
       LET q == reqs[r]
           q2 == reqs'[r]
       IN  evo \in {"kv", "multi"} =>
             /\ (q.pc = "resultGet" /\ q2.pc # "resultGet"
                   /\ resultCache[ResultKeyOf(evo, q.asn)] = Null) =>
                  /\ q2.pc = "fetching"
                  /\ q2.bgp.st # "none"
                  /\ DOMAIN q2.ix = 1..NumIx(evo)
                  /\ \A i \in DOMAIN q2.ix : q2.ix[i].st # "none"
                  /\ ~q2.aggregated
             /\ (q2.aggregated /\ ~q.aggregated) =>
                  /\ q.pc = "fetching"
                  /\ q2.bgp.st = "ok"
                  /\ DOMAIN q2.ix = 1..NumIx(evo)
                  /\ \A i \in DOMAIN q2.ix : q2.ix[i].st = "ok"
             /\ ("result" \in q2.writes /\ "result" \notin q.writes) =>
                  q.aggregated /\ q.pc = "resultSet"
             /\ q2.bgp.st = "err" => ~q2.aggregated /\ "result" \notin q2.writes]_vars

\* a request of the regional-peering handler that missed the report cache, sent
\* all three upstream requests, got no usable answer from the registry for one
\* of them, and still aggregated and cached its report
C12_Witness ==
  \E r \in ReqIds :
    /\ evo = "kv"
    /\ reqs[r].pc = "done"
    /\ reqs[r].gets.bgp = 1
    /\ reqs[r].gets.ix = 2
    /\ reqs[r].ixBad # {}
    /\ reqs[r].aggregated
    /\ "result" \in reqs[r].writes

(***************************************************************************)
(* Properties of the request parameter.                                    *)
(***************************************************************************)
\* C13: a request whose asn parameter starts with a character that is no digit
\* (such as "abc") has answered with status 400 and success = false, and has
\* started no fetcher: it sent no upstream request, looked up no cache and
\* wrote none
C13_InvalidAsnRejectedBeforeAnyAccess ==
  \A r \in ReqIds :
    LET q == reqs[r]
    IN  (/\ q.param.present
         /\ q.param.text # <<>>
         /\ ~IsDigit(Head(q.param.text))) =>
          /\ q.pc = "done"
          /\ q.resp.status = 400
          /\ ~q.resp.success
          /\ q.resp.result = Null
          /\ q.gets = NoGets
          /\ q.writes = {}
          /\ q.bgp.st = "none" /\ q.ips.st = "none" /\ q.ix = <<>>
          /\ ~q.bgpSeen.had /\ q.ixSeen = <<>> /\ ~q.resultSeen

\* "abc" rejected by a server whose route-table cache is filled
C13_Witness ==
  \E r \in ReqIds :
    /\ reqs[r].param = Param(<<"a", "b", "c">>)
    /\ reqs[r].pc = "done"
    /\ reqs[r].resp.status = 400
    /\ bgpCache # Null

\* C14: a request with an asn parameter that holds a character that is no
\* digit, wherever it stands ("abc" as well as "1136a"), answers with status
\* 400 and computes no report
C14_NonIntegerParameterRejected ==
  \A r \in ReqIds :
    LET q == reqs[r]
    IN  (/\ q.param.present
         /\ \E i \in DOMAIN q.param.text : ~IsDigit(q.param.text[i])) =>
          /\ q.pc = "done"
          /\ q.resp.status = 400
          /\ ~q.aggregated

\* C15: a request of the two ISP handlers without an asn parameter has answered
\* with the success envelope that carries ISP_LIST, has sent no upstream
\* request, looked up no cache and written none
C15_NoParameterReturnsIspList ==
  \A r \in ReqIds :
    LET q == reqs[r]
    IN  (evo \in {"mem", "kv"} /\ q.pc # "idle" /\ ~q.param.present) =>
          /\ q.pc = "done"
          /\ q.resp.status = 200
          /\ q.resp.success
          /\ q.resp.fields = {"success", "isps"}
          /\ q.resp.isps = ISP_LIST
          /\ q.gets = NoGets
          /\ q.writes = {}
          /\ q.bgp.st = "none" /\ q.ips.st = "none" /\ q.ix = <<>>
          /\ ~q.bgpSeen.had /\ q.ixSeen = <<>> /\ ~q.resultSeen

\* the list served while a report for an ISP is held in the report cache
C15_Witness ==
  \E r \in ReqIds :
    /\ evo = "kv"
    /\ reqs[r].pc = "done"
    /\ ~reqs[r].param.present
    /\ reqs[r].resp.isps # <<>>
    /\ \E k \in DOMAIN resultCache : resultCache[k] # Null

(***************************************************************************)
(* Properties of the response.                                             *)
(***************************************************************************)
\* C16: a request that has answered has answered with a success envelope
\* (status 200), the 400 failure envelope or a 500 failure envelope; a request
\* that is waiting when one of its fetches throws (bgp.tools or PeeringDB
\* failing, kv.set rejecting) answers with the 500 envelope in that step; and a
\* promise that settles after the request has answered leaves the response
\* as it is
C16_EveryRequestEndsWithOneEnvelope ==
  [][\A r \in ReqIds :
       LET q == reqs[r]
           q2 == reqs'[r]
       IN  /\ q2.pc = "done" =>
                \/ /\ q2.resp.status = 200 /\ q2.resp.success
                   /\ "success" \in q2.resp.fields /\ "error" \notin q2.resp.fields
                \/ /\ q2.resp.status \in {400, 500} /\ ~q2.resp.success
                   /\ q2.resp.fields = {"success", "error"}
                   /\ q2.resp.error # NoError
                   /\ q2.resp.result = Null
           /\ (/\ q.pc = "fetching"
               /\ \/ q2.bgp.st = "err"
                  \/ q2.ips.st = "err"
                  \/ \E i \in DOMAIN q2.ix : q2.ix[i].st = "err") =>
                q2.pc = "done" /\ q2.resp.status = 500
           /\ (q.pc = "done" /\ InFlight(q)) =>
                q2.pc = "done" /\ q2.resp = q.resp]_vars

\* the official-prefix handler answered 500 when PeeringDB failed its lookup
\* of the target network, and a fetch that was still running then has stored
\* its answer since
C16_Witness ==
  \E r \in ReqIds :
    /\ evo = "mem"
    /\ reqs[r].pc = "done"
    /\ reqs[r].resp.status = 500
    /\ reqs[r].resp.error.text = "registry"
    /\ reqs[r].lateWrites # {}

\* C17: the body of every successful report response of the regional-peering
\* handler, computed or served from the report cache, holds the report, the
\* cached flag, the elapsed time and the size of the route table
C17_ReportResponseComplete ==
  \A r \in ReqIds :
    LET q == reqs[r]
    IN  (/\ evo = "kv"
         /\ q.pc = "done"
         /\ q.resp.success
         /\ q.resp.result # Null) =>
          {"result", "cached", "queryTime", "bgpTableSize"} \subseteq q.resp.fields

(***************************************************************************)
(* The line parser of fetchBgpTable on its own (check.ts:169-183,          *)
(* part_000:85-96, 475-489): a body of lines in, the entries out.          *)
(***************************************************************************)
\* longest body handed to the parser, in lines
MaxLines == 4

ParseLineKinds ==
  {BlankLine, MalformedLine, JsonLine(EntryLow), JsonLine(EntryMid), JsonLine(Null)}

ParseBodies == UNION {[1..k -> ParseLineKinds] : k \in 0..MaxLines}

ParseInit ==
  /\ evo \in {"mem", "multi"}
  /\ now = 0
  /\ ticks = 0
  /\ bgpCache = Null
  /\ cfIpCache = Null
  /\ ixCache = [k \in IxKeys(evo) |-> Null]
  /\ ispIxCacheTimestamp = 0
  /\ resultCache = [k \in ResultKeys(evo) |-> Null]
  /\ reqs = [r \in ReqIds |-> IdleReq]
  /\ aggIn \in [text : ParseBodies]
  /\ aggOut = Null
  /\ ixLast = [k \in IxKeys(evo) |-> Null]
  /\ dash = DashIdle

\* the loop over the lines of the body
ParseBody ==
  /\ aggOut = Null
  /\ aggOut' = parseLines(aggIn.text, NoEntries)
  /\ UNCHANGED <<evo, now, ticks, bgpCache, cfIpCache, ixCache,
                 ispIxCacheTimestamp, resultCache, reqs, aggIn, ixLast, dash>>

ParseNext == ParseBody

ParseSpec == ParseInit /\ [][ParseNext]_vars

\* C18: the parser raises no error, and the entries it returns are the values
\* of the lines that are valid JSON, as many as there are such lines and in
\* the order of the lines, whatever malformed and blank lines stand between
C18_MalformedLinesSkipped ==
  aggOut # Null =>
    LET valid == SelectSeq(aggIn.text, LAMBDA l : l.kind = "json")
    IN  /\ ~aggOut.threw
        /\ Len(aggOut.entries) = Cardinality({i \in DOMAIN aggIn.text :
                                                aggIn.text[i].kind = "json"})
        /\ aggOut.entries = [i \in DOMAIN valid |-> valid[i].value]

\* a body with a malformed line and a blank line between two valid lines
C18_Witness ==
  /\ aggOut # Null
  /\ aggIn.text = << JsonLine(EntryMid), MalformedLine, BlankLine, JsonLine(EntryLow) >>
  /\ aggOut.entries = << EntryMid, EntryLow >>

(***************************************************************************)
(* Properties of the report.                                               *)
(***************************************************************************)
\* C19: in a report of the regional-peering handler the counts of the five
\* visibility buckets add up to the report's total prefix count, which is the
\* number of entries of the route table whose ASN is the monitored network's
C19_BucketsSumToTotal ==
  (aggOut # Null /\ evo = "kv") =>
    /\ Len(aggOut.cfPrefixes.visibilityBuckets) = 5
    /\ SumSeq([b \in 1..5 |-> aggOut.cfPrefixes.visibilityBuckets[b].count])
         = aggOut.cfPrefixes.total
    /\ aggOut.cfPrefixes.total
         = Cardinality({i \in DOMAIN aggIn.bgpTable :
                          aggIn.bgpTable[i].ASN = CLOUDFLARE_AS})

\* a table with two entries of the monitored network, which fall into
\* different buckets
C19_Witness ==
  /\ aggOut # Null
  /\ evo = "kv"
  /\ aggOut.cfPrefixes.total = 2
  /\ aggOut.cfPrefixes.visibilityBuckets[1].count = 1
  /\ aggOut.cfPrefixes.visibilityBuckets[4].count = 1

\* C20: in every report of an ISP handler, computed from fetched, cached or
\* fallback membership sets or served from the report cache, sharedIxps is at
\* most ispIxps and at most cfIxps
C20_SharedAtMostEither ==
  \A r \in ReqIds :
    LET q == reqs[r]
    IN  (/\ evo \in {"kv", "mem"}
         /\ q.pc = "done"
         /\ q.resp.result # Null) =>
          /\ q.resp.result.peering.sharedIxps <= q.resp.result.peering.ispIxps
          /\ q.resp.result.peering.sharedIxps <= q.resp.result.peering.cfIxps

\* a report of the regional-peering handler computed from a cached set of the
\* target network and a fetched set of the ISP, with shared IXPs
C20_Witness ==
  \E r \in ReqIds :
    /\ evo = "kv"
    /\ reqs[r].pc = "done"
    /\ reqs[r].resp.result # Null
    /\ reqs[r].aggregated
    /\ Len(reqs[r].ixSeen) = 2
    /\ reqs[r].ixSeen[1].hit
    /\ ~reqs[r].ixSeen[2].hit
    /\ reqs[r].gets.ix = 1
    /\ reqs[r].resp.result.peering.sharedIxps = 2

(***************************************************************************)
(* Repeated requests against upstreams whose answers do not change: aggIn  *)
(* holds the answer of bgp.tools, of PeeringDB per membership lookup and   *)
(* of cloudflare.com/ips, chosen once; the requests for one ASN follow     *)
(* each other, and the clock stays inside the lifetime of a cached report. *)
(***************************************************************************)
\* number of requests that follow each other
MaxRepeat == 2

Repeats == 1..MaxRepeat

RepeatParam == Param(<<"1", "1", "3", "6">>)

RegistryGood ==
  [kind |-> "http", ok |-> TRUE, status |-> 200,
   body |-> RegistryBody(TRUE, FALSE, "array", <<26, 0, 59, 26>>)]
RegistryEmpty ==
  [kind |-> "http", ok |-> TRUE, status |-> 200,
   body |-> RegistryBody(TRUE, FALSE, "array", <<>>)]
RegistryLimited ==
  [kind |-> "http", ok |-> FALSE, status |-> 429,
   body |-> RegistryBody(TRUE, TRUE, "undefined", <<>>)]

Upstreams(e) ==
  [bgp : {b \in BgpResponses : b.kind = "http" /\ ~b.big},
   ix : [1..NumIx(e) -> {RegistryGood, RegistryEmpty, RegistryLimited}],
   ips : IF e = "mem" THEN {i \in IpsResponses : i.kind = "http"}
         ELSE {[kind |-> "reject", ips |-> NoIps]}]

RepeatInit ==
  /\ evo \in Evolutions
  /\ now = 0
  /\ ticks = 0
  /\ bgpCache = Null
  /\ cfIpCache = Null
  /\ ixCache = [k \in IxKeys(evo) |-> Null]
  /\ ispIxCacheTimestamp = 0
  /\ resultCache = [k \in ResultKeys(evo) |-> Null]
  /\ reqs = [r \in Repeats |-> IdleReq]
  /\ aggIn \in Upstreams(evo)
  /\ aggOut = Null
  /\ ixLast = [k \in IxKeys(evo) |-> Null]
  /\ dash = DashIdle

\* request r arrives when the one before it has answered and is gone
Follows(r) ==
  /\ reqs[r].pc = "idle"
  /\ \A o \in Repeats : o < r => reqs[o].pc = "done" /\ ~InFlight(reqs[o])

RepeatNext ==
  \/ \E d \in {BGP_CACHE_TTL \div 2, BGP_CACHE_TTL} : Tick(d)
  \/ ExpireBgp
  \/ \E r \in Repeats : Follows(r) /\ GetMem(r, RepeatParam)
  \/ \E r \in Repeats : Follows(r) /\ GetKv(r, RepeatParam)
  \/ \E r \in Repeats : Follows(r) /\ GetMulti(r)
  \/ \E r \in Repeats : ResultGet(r)
  \/ \E r \in Repeats : BgpGet(r)
  \/ \E r \in Repeats : BgpResponse(r, aggIn.bgp)
  \/ \E r \in Repeats, i \in 1..NumIx(evo) : IxGet(r, i)
  \/ \E r \in Repeats, i \in 1..NumIx(evo) : IxResponse(r, i, aggIn.ix[i])
  \/ \E r \in Repeats : IpsResponse(r, aggIn.ips)
  \/ \E r \in Repeats : ResultSet(r)

RepeatSpec == RepeatInit /\ [][RepeatNext]_vars

\* C21: two requests for one ASN that follow each other inside the lifetime of
\* a cached report, against upstreams that answer the same both times, carry
\* the same report, whether the later one was served from the report cache or
\* computed again
C21_RepeatedRequestSameReport ==
  \A a \in Repeats, b \in Repeats :
    (/\ a < b
     /\ reqs[a].pc = "done" /\ reqs[a].resp.success
     /\ reqs[b].pc = "done" /\ reqs[b].resp.success) =>
      reqs[a].resp.result = reqs[b].resp.result

\* the regional-peering handler computed a report and, a quarter of an hour
\* later, served the next request from the report cache
C21_Witness ==
  /\ evo = "kv"
  /\ now > 0
  /\ reqs[1].pc = "done" /\ reqs[1].aggregated /\ reqs[1].resp.result # Null
  /\ reqs[2].pc = "done" /\ reqs[2].resultSeen /\ reqs[2].resp.result # Null

(***************************************************************************)
(* Properties of the statistics and the score (regional-peering handler).  *)
(* The report does not list the parts of its score: the health part is     *)
(* what is left of a score below 100 without the two peering parts.        *)
(***************************************************************************)
\* C22: for a table with T > 0 entries of the monitored network, the report's
\* avgVisibility is the sum of their visibilities over T, rounded to the
\* nearest integer (a half up); its low-visibility list holds the L entries
\* below max(1000, avgVisibility / 2); and its score is the smaller of 100 and
\* round((1 - L / T) * 40) plus the two peering parts, for every T.  The
\* visibilities 100, 2500, 4000 give 2200, 100, 4000, the one low entry 100,
\* and a health part of 27
C22_VisibilityStatsAndHealth ==
  (aggOut # Null /\ evo = "kv") =>
    LET own == SelectSeq(aggIn.bgpTable, LAMBDA e : e.ASN = CLOUDFLARE_AS)
        T == Len(own)
        sum == SumSeq([i \in 1..T |-> own[i].Hits])
        avg == aggOut.cfPrefixes.avgVisibility
        L == Cardinality({i \in 1..T : 2 * own[i].Hits < MaxOf(2000, avg)})
        health == CHOOSE h \in 0..40 :
                    2 * h * T <= 80 * (T - L) + T /\ 80 * (T - L) + T < 2 * (h + 1) * T
        peering == (IF aggOut.peering.regionalIxp # Null
                       /\ aggOut.peering.regionalIxp.peered THEN 40 ELSE 0)
                   + MinOf(aggOut.peering.sharedIxps * 10, 20)
    IN  T > 0 =>
          /\ 2 * avg * T <= 2 * sum + T
          /\ 2 * sum + T < 2 * (avg + 1) * T
          /\ Len(aggOut.cfPrefixes.lowVisibility) = L
          /\ aggOut.score = MinOf(100, health + peering)
          /\ {own[i].Hits : i \in 1..T} = {100, 2500, 4000} /\ T = 3 =>
               /\ avg = 2200
               /\ aggOut.cfPrefixes.minVisibility = 100
               /\ aggOut.cfPrefixes.maxVisibility = 4000
               /\ Len(aggOut.cfPrefixes.lowVisibility) = 1
               /\ aggOut.cfPrefixes.lowVisibility[1].visibility = 100
               /\ aggOut.score = 27 + peering

C24_EmptySetHealthZero ==
  (aggOut # Null /\ evo = "kv" /\ aggOut.cfPrefixes.total = 0) =>
    aggOut.score = regionalPeeringScore(aggOut.peering.regionalIxp)
                     + anyPeeringScore(aggOut.peering.sharedIxps)

\* C25: when every entry of the monitored network is below the threshold, the
\* health part of the score is 0 whatever their number, also beyond the 50
\* entries the reported list keeps
C25_AllLowHealthZero ==
  (aggOut # Null /\ evo = "kv") =>
    LET own == SelectSeq(aggIn.bgpTable, LAMBDA e : e.ASN = CLOUDFLARE_AS)
    IN  (/\ Len(own) > 0
         /\ \A i \in DOMAIN own :
              2 * own[i].Hits < MaxOf(2000, aggOut.cfPrefixes.avgVisibility)) =>
          aggOut.score = regionalPeeringScore(aggOut.peering.regionalIxp)
                           + anyPeeringScore(aggOut.peering.sharedIxps)

\* C26: the reported low-visibility list has at most 50 entries, in ascending
\* order of visibility, each the prefix and visibility of an entry of the
\* monitored network that is below max(1000, avgVisibility / 2); it has all
\* such entries or 50 of them, and no such entry is lower than the last listed
\* unless as many lower or equal ones are listed as the table has
C26_LowVisibilityList ==
  (aggOut # Null /\ evo = "kv") =>
    LET own == SelectSeq(aggIn.bgpTable, LAMBDA e : e.ASN = CLOUDFLARE_AS)
        low == aggOut.cfPrefixes.lowVisibility
        below(h) == 2 * h < MaxOf(2000, aggOut.cfPrefixes.avgVisibility)
        lows == {i \in DOMAIN own : below(own[i].Hits)}
        inTable(v) == Cardinality({i \in DOMAIN own : own[i].Hits = v})
        inList(v) == Cardinality({j \in DOMAIN low : low[j].visibility = v})
    IN  /\ Len(low) <= 50
        /\ Len(low) = MinOf(50, Cardinality(lows))
        /\ \A j \in DOMAIN low :
             /\ below(low[j].visibility)
             /\ \E i \in lows : own[i].CIDR = low[j].prefix
                                 /\ own[i].Hits = low[j].visibility
             /\ j > 1 => low[j - 1].visibility <= low[j].visibility
        /\ \A i \in lows : \A j \in DOMAIN low :
             own[i].Hits < low[j].visibility =>
               inList(own[i].Hits) = inTable(own[i].Hits)

\* 51 entries under the threshold of which the last of the table is the lowest:
\* it heads the list of 50
C26_Witness ==
  /\ aggOut # Null
  /\ evo = "kv"
  /\ Len(aggIn.bgpTable) = 51
  /\ aggIn.bgpTable[51].Hits < aggIn.bgpTable[1].Hits
  /\ Len(aggOut.cfPrefixes.lowVisibility) = 50
  /\ aggOut.cfPrefixes.lowVisibility[1].visibility = aggIn.bgpTable[51].Hits

\* C27: avgVisibility, minVisibility and maxVisibility of a report are 0 when
\* the table has no entry of the monitored network; otherwise they are the
\* mean rounded to the nearest integer, the least and the greatest of the
\* visibilities of these entries, and minVisibility <= avgVisibility <=
\* maxVisibility
C27_VisibilityStatistics ==
  (aggOut # Null /\ evo = "kv") =>
    LET own == SelectSeq(aggIn.bgpTable, LAMBDA e : e.ASN = CLOUDFLARE_AS)
        T == Len(own)
        hits == {own[i].Hits : i \in 1..T}
        sum == SumSeq([i \in 1..T |-> own[i].Hits])
        st == aggOut.cfPrefixes
    IN  IF T = 0
        THEN st.avgVisibility = 0 /\ st.minVisibility = 0 /\ st.maxVisibility = 0
        ELSE /\ 2 * st.avgVisibility * T <= 2 * sum + T
             /\ 2 * sum + T < 2 * (st.avgVisibility + 1) * T
             /\ st.minVisibility \in hits /\ \A h \in hits : st.minVisibility <= h
             /\ st.maxVisibility \in hits /\ \A h \in hits : h <= st.maxVisibility
             /\ st.minVisibility <= st.avgVisibility
             /\ st.avgVisibility <= st.maxVisibility

\* three entries of the monitored network whose mean is no integer, the lowest
\* of them not the first of the table
C27_Witness ==
  /\ aggOut # Null
  /\ evo = "kv"
  /\ aggIn.bgpTable = << EntryMid, EntryLow, EntrySpecific >>
  /\ aggOut.cfPrefixes.avgVisibility = 1167
  /\ aggOut.cfPrefixes.minVisibility = 100
  /\ aggOut.cfPrefixes.maxVisibility = 2500

\* C28: every entry of the monitored network is counted in exactly one of the
\* five buckets, the one with the highest lower bound among 0, 500, 1000, 2000,
\* 3000 that its visibility reaches; a visibility equal to a bound is counted
\* in the bucket that starts at that bound
C28_OneBucketPerEntry ==
  (aggOut # Null /\ evo = "kv") =>
    LET own == SelectSeq(aggIn.bgpTable, LAMBDA e : e.ASN = CLOUDFLARE_AS)
        lower == << 0, 500, 1000, 2000, 3000 >>
        reached(h) == {b \in 1..5 : lower[b] <= h}
        highest(h) == CHOOSE b \in reached(h) : \A c \in reached(h) : c <= b
        buckets == aggOut.cfPrefixes.visibilityBuckets
    IN  /\ \A b \in 1..5 :
             /\ buckets[b].min = lower[b]
             /\ buckets[b].count
                  = Cardinality({i \in DOMAIN own : highest(own[i].Hits) = b})
        /\ \A b \in 2..5 :
             (\A i \in DOMAIN own : own[i].Hits = lower[b]) =>
               buckets[b].count = Len(own)

\* an entry seen by 500 collectors and one seen by 499: the first is counted
\* from 500 on, the second below
C28_Witness ==
  /\ aggOut # Null
  /\ evo = "kv"
  /\ Len(aggIn.bgpTable) = 2
  /\ aggIn.bgpTable[1].Hits = 500
  /\ aggIn.bgpTable[2].Hits = 499
  /\ aggOut.cfPrefixes.visibilityBuckets[1].count = 1
  /\ aggOut.cfPrefixes.visibilityBuckets[2].count = 1

\* C29: the regional part of the score is 40 exactly when the queried ASN is
\* in the ISP list, the regional list has an exchange of the ISP's country, and
\* the id of that exchange is in the membership sets of both networks; it is 0
\* otherwise, and for an ASN that is not in the ISP list the report has no
\* regional exchange
C29_RegionalComponent ==
  (aggOut # Null /\ evo = "kv") =>
    LET listed == {i \in DOMAIN ISP_LIST : ISP_LIST[i].asn = aggIn.targetAsn}
        ofCountry(c) == {k \in DOMAIN REGIONAL_IXPS : REGIONAL_IXPS[k].country = c}
        first(c) == CHOOSE k \in ofCountry(c) : \A m \in ofCountry(c) : k <= m
        matched ==
          \E i \in listed :
            /\ ofCountry(ISP_LIST[i].country) # {}
            /\ REGIONAL_IXPS[first(ISP_LIST[i].country)].id \in aggIn.ix[1]
            /\ REGIONAL_IXPS[first(ISP_LIST[i].country)].id \in aggIn.ix[2]
        regionalComponent == IF matched THEN 40 ELSE 0
    IN  /\ aggOut.score
             = MinOf(100, healthScore(Len(aggOut.cfPrefixes.lowVisibility),
                                      aggOut.cfPrefixes.total)
                            + regionalComponent
                            + anyPeeringScore(aggOut.peering.sharedIxps))
        /\ listed = {} => aggOut.peering.regionalIxp = Null
        /\ matched <=> (aggOut.peering.regionalIxp # Null
                          /\ aggOut.peering.regionalIxp.peered)

\* Proximus and the monitored network are both at BNIX, and at no other
\* exchange: 40 for the route table, 40 regional, 10 for the one shared exchange
C29_Witness ==
  /\ aggOut # Null
  /\ evo = "kv"
  /\ aggIn.targetAsn = 5432
  /\ aggIn.ix = << {59}, {59} >>
  /\ aggIn.bgpTable = << EntryHigh >>
  /\ aggOut.peering.regionalIxp.id = 59
  /\ aggOut.score = 90

\* C30: a line of the route table that is JSON but no route record never makes
\* the request fail: no request of the regional-peering handler has answered
\* with the 500 envelope for a TypeError raised on the table's entries
C30_NonRecordLineWithoutEffect ==
  \A r \in ReqIds :
    (evo = "kv" /\ reqs[r].pc = "done" /\ reqs[r].resp.status = 500) =>
      reqs[r].resp.error # TypeErrorOf

(***************************************************************************)
(* Overlapping requests of the regional-peering handler for one ASN,       *)
(* against upstreams whose answers do not change (held in aggIn): the      *)
(* requests interleave at every await, and the clock advances between any  *)
(* two steps.                                                              *)
(***************************************************************************)
\* number of requests in flight at the same time
MaxOverlap == 2

Overlaps == 1..MaxOverlap

OverlapInit ==
  /\ evo = "kv"
  /\ now = 0
  /\ ticks = 0
  /\ bgpCache = Null
  /\ cfIpCache = Null
  /\ ixCache = [k \in IxKeys(evo) |-> Null]
  /\ ispIxCacheTimestamp = 0
  /\ resultCache = [k \in ResultKeys(evo) |-> Null]
  /\ reqs = [r \in Overlaps |-> IdleReq]
  /\ aggIn \in Upstreams(evo)
  /\ aggOut = Null
  /\ ixLast = [k \in IxKeys(evo) |-> Null]
  /\ dash = DashIdle

OverlapNext ==
  \/ Tick(BGP_CACHE_TTL \div 2)
  \/ \E r \in Overlaps : reqs[r].pc = "idle" /\ GetKv(r, RepeatParam)
  \/ \E r \in Overlaps : ResultGet(r)
  \/ \E r \in Overlaps : BgpGet(r)
  \/ \E r \in Overlaps : BgpResponse(r, aggIn.bgp)
  \/ \E r \in Overlaps, i \in 1..NumIx(evo) : IxGet(r, i)
  \/ \E r \in Overlaps, i \in 1..NumIx(evo) : IxResponse(r, i, aggIn.ix[i])
  \/ \E r \in Overlaps : ResultSet(r)

OverlapSpec == OverlapInit /\ [][OverlapNext]_vars

\* C31: requests of the regional-peering handler for one ASN that overlap in
\* any order and take different times carry the same report: two that hold the
\* same route table and the same two IXP sets have computed equal reports, two
\* that have answered against the same upstream answers have answered with
\* equal reports, and the cached report is the report of the response, in
\* which the elapsed time is no field
C31_ReportIndependentOfTimeAndOrder ==
  \A a \in Overlaps, b \in Overlaps :
    LET qa == reqs[a]
        qb == reqs[b]
        entry == resultCache[ResultKeyOf(evo, qa.asn)]
    IN  /\ (/\ qa.pc = "resultSet" /\ qb.pc = "resultSet"
            /\ qa.bgp.val = qb.bgp.val
            /\ ixSets(qa) = ixSets(qb)) =>
              qa.result = qb.result
        /\ (/\ qa.pc = "done" /\ qa.resp.success
            /\ qb.pc = "done" /\ qb.resp.success) =>
              qa.resp.result = qb.resp.result
        /\ (qa.pc = "done" /\ qa.resp.success /\ entry # Null) =>
              /\ entry.value = qa.resp.result
              /\ "queryTime" \notin DOMAIN entry.value
              /\ "queryTime" \in qa.resp.fields

\* two requests missed the report cache and both computed the report, one of
\* them within the same instant and one across an advance of the clock
C31_Witness ==
  /\ reqs[1].pc = "done" /\ reqs[1].aggregated /\ reqs[1].resp.success
  /\ reqs[2].pc = "done" /\ reqs[2].aggregated /\ reqs[2].resp.success
  /\ reqs[1].resp.queryTime # reqs[2].resp.queryTime
  /\ reqs[1].resp.result = reqs[2].resp.result
  /\ reqs[1].resp.result.score > 0

(***************************************************************************)
(* Properties of the official-prefix report (check.ts).                    *)
(***************************************************************************)
\* C32: in a report of the official-prefix handler every official prefix has
\* one record, whose status is announced when an entry of the monitored
\* network has the prefix's CIDR, deaggregated when none has and an entry lies
\* inside the prefix, and not-found otherwise; the three counts add up to
\* totalPrefixes; and the score is min(100, round(0.8 * 100 * (announced +
\* deaggregated) / totalPrefixes + min(5 * sharedIxps, 20))), its first term 0
\* when there are no prefixes
C32_OfficialClassificationAndScore ==
  (aggOut # Null /\ evo = "mem") =>
    LET own == SelectSeq(aggIn.bgpTable, LAMBDA e : e.ASN = CLOUDFLARE_AS)
        official == aggIn.cfIps.v4 \o aggIn.cfIps.v6
        exact(p) == \E i \in DOMAIN own : own[i].CIDR = p
        inside(p) == \E i \in DOMAIN own :
                       own[i].CIDR # p /\ prefixContains(p, own[i].CIDR)
        T == aggOut.totalPrefixes
        found == aggOut.announced + aggOut.deaggregated
        bonus == IF aggOut.peering.sharedIxps >= 4 THEN 20
                 ELSE 5 * aggOut.peering.sharedIxps
        count(st) == Cardinality({k \in DOMAIN aggOut.prefixes :
                                    aggOut.prefixes[k].bgpStatus = st})
    IN  /\ T = Len(official)
        /\ Len(aggOut.prefixes) = T
        /\ \A k \in DOMAIN official :
             /\ aggOut.prefixes[k].prefix = official[k]
             /\ aggOut.prefixes[k].bgpStatus =
                  IF exact(official[k]) THEN "announced"
                  ELSE IF inside(official[k]) THEN "deaggregated"
                  ELSE "not-found"
        /\ aggOut.announced = count("announced")
        /\ aggOut.deaggregated = count("deaggregated")
        /\ aggOut.notFound = count("not-found")
        /\ aggOut.announced + aggOut.deaggregated + aggOut.notFound = T
        /\ aggOut.peering.sharedIxps = Cardinality(aggIn.ix[1] \cap aggIn.ix[2])
        /\ IF T = 0 THEN aggOut.score = bonus
           ELSE \E s \in 0..120 :
                  /\ 2 * s * T <= 2 * (80 * found + bonus * T) + T
                  /\ 2 * (80 * found + bonus * T) + T < 2 * (s + 1) * T
                  /\ aggOut.score = MinOf(100, s)

\* of the four official prefixes one is announced as it is, one by a more
\* specific prefix only, two are not found; one exchange is shared
C32_Witness ==
  /\ aggOut # Null
  /\ evo = "mem"
  /\ aggIn.cfIps = OfficialIps
  /\ aggOut.announced = 1
  /\ aggOut.deaggregated = 1
  /\ aggOut.notFound = 2
  /\ aggOut.peering.sharedIxps = 1
  /\ aggOut.score = 45

(***************************************************************************)
(* fetchIspIxData of check.ts on its own (check.ts:121-123, 206-232):      *)
(* calls for two ASNs against the one Map and its one timestamp.  reqs     *)
(* holds one record per caller, its membership fetch in ix[2]; a cached    *)
(* entry keeps, as history, the time of the call that stored it.           *)
(***************************************************************************)
\* two ISPs of the list
IspAsns == {1136, 5432}

IspIxKeys == {IspIxKey(a) : a \in IspAsns}

IspIxInit ==
  /\ evo = "mem"
  /\ now = 0
  /\ ticks = 0
  /\ bgpCache = Null
  /\ cfIpCache = Null
  /\ ixCache = [k \in IspIxKeys |-> Null]
  /\ ispIxCacheTimestamp = 0
  /\ resultCache = [k \in ResultKeys(evo) |-> Null]
  /\ reqs = [c \in Callers |-> IdleReq]
  /\ aggIn = NoAggIn
  /\ aggOut = Null
  /\ ixLast = [k \in IspIxKeys |-> Null]
  /\ dash = DashIdle

\* fetchIspIxData(asn) is called and runs to its return of the cached record
\* or to its await fetch(...) (check.ts:209-216)
CallFetchIspIxData(c, asn) ==
  LET entry == ixCache[IspIxKey(asn)]
      hit == ispIxFresh(entry, ispIxCacheTimestamp, now)
  IN  /\ ~InFlight(reqs[c])
      /\ reqs' = [reqs EXCEPT ![c] =
           [IdleReq EXCEPT
              !.asn = asn,
              !.ix = << NoIxTask,
                        IF hit THEN OkTask(NoIxTask, entry.value)
                        ELSE NetTask(NoIxTask, now) >>,
              !.ixSeen = << SeenIx(Null, 0, now, FALSE, Null),
                            SeenIx(entry, ispIxCacheTimestamp, now, hit,
                                   ixLast[IspIxKey(asn)]) >>,
              !.gets.ix = IF hit THEN 0 ELSE 1]]
      /\ UNCHANGED <<evo, now, ticks, bgpCache, cfIpCache, ixCache,
                     ispIxCacheTimestamp, resultCache, aggIn, aggOut, ixLast,
                     dash>>

IspIxNext ==
  \/ \E d \in {MEM_CACHE_TTL \div 2, MEM_CACHE_TTL} : Tick(d)
  \/ \E c \in Callers, a \in IspAsns : CallFetchIspIxData(c, a)
  \/ \E c \in Callers, resp \in {RegistryGood, RegistryEmpty, RegistryLimited} :
       IxResponse(c, 2, resp)

IspIxSpec == IspIxInit /\ [][IspIxNext]_vars

\* C33: a call of fetchIspIxData is served from the Map only when the entry of
\* its ASN was stored less than the membership TTL before
C33_EntryServedWithinOwnAge ==
  [][\A c \in Callers :
       LET q == reqs'[c]
       IN  (/\ q # reqs[c]
            /\ Len(q.ixSeen) = 2
            /\ q.ixSeen[2].hit) =>
             /\ ixCache[IspIxKey(q.asn)] # Null
             /\ now - ixCache[IspIxKey(q.asn)].timestamp < MEM_CACHE_TTL]_vars

\* C34: a request of the KV handlers that has answered writes no cache after
\* its response; when its route-table fetch failed, the membership fetches it
\* started have not written the membership cache since
C34_NoCacheWriteAfterResponse ==
  \A r \in ReqIds :
    (evo \in {"kv", "multi"} /\ reqs[r].pc = "done") =>
      /\ reqs[r].lateWrites = {}
      /\ reqs[r].bgp.st = "err" => "ix" \notin reqs[r].lateWrites

PrefixSample(cidr, addr) == [cidr |-> cidr, addr |-> addr]

PrefixSamples ==
  { PrefixSample(V4(104, 16, 0, 0, 13), <<104, 16, 0, 0>>),
    PrefixSample(V4(104, 16, 0, 0, 12), <<104, 16, 0, 0>>),
    PrefixSample(V4(104, 17, 0, 0, 16), <<104, 17, 0, 0>>),
    PrefixSample(V4(104, 24, 0, 0, 13), <<104, 24, 0, 0>>),
    PrefixSample(V4(104, 17, 5, 1, 32), <<104, 17, 5, 1>>),
    PrefixSample(V4(200, 1, 0, 0, 16), <<200, 1, 0, 0>>),
    PrefixSample(V4(0, 0, 0, 0, 0), <<0, 0, 0, 0>>),
    PrefixSample(V6(<<9734, 18176, EmptyGroup, EmptyGroup>>, 32),
                 <<9734, 18176, 0, 0, 0, 0, 0, 0>>),
    PrefixSample(V6(<<9734, 18176, 16, EmptyGroup, EmptyGroup>>, 44),
                 <<9734, 18176, 16, 0, 0, 0, 0, 0>>),
    PrefixSample(V6(<<9734, 18176, EmptyGroup, 1>>, 128),
                 <<9734, 18176, 0, 0, 0, 0, 0, 1>>),
    PrefixSample(V6(<<10758, 39104, EmptyGroup, EmptyGroup>>, 29),
                 <<10758, 39104, 0, 0, 0, 0, 0, 0>>),
    PrefixSample(V6(<<EmptyGroup, EmptyGroup, EmptyGroup>>, 0),
                 <<0, 0, 0, 0, 0, 0, 0, 0>>) }

PrefixInit ==
  /\ evo = "mem"
  /\ now = 0
  /\ ticks = 0
  /\ bgpCache = Null
  /\ cfIpCache = Null
  /\ ixCache = [k \in IxKeys(evo) |-> Null]
  /\ ispIxCacheTimestamp = 0
  /\ resultCache = [k \in ResultKeys(evo) |-> Null]
  /\ reqs = [r \in ReqIds |-> IdleReq]
  /\ aggIn \in [a : PrefixSamples, b : PrefixSamples, c : PrefixSamples]
  /\ aggOut = Null
  /\ ixLast = [k \in IxKeys(evo) |-> Null]
  /\ dash = DashIdle

\* prefixContains between the three prefixes
ContainsAll ==
  /\ aggOut = Null
  /\ aggOut' = [aa |-> prefixContains(aggIn.a.cidr, aggIn.a.cidr),
                ab |-> prefixContains(aggIn.a.cidr, aggIn.b.cidr),
                bc |-> prefixContains(aggIn.b.cidr, aggIn.c.cidr),
                ac |-> prefixContains(aggIn.a.cidr, aggIn.c.cidr)]
  /\ UNCHANGED <<evo, now, ticks, bgpCache, cfIpCache, ixCache,
                 ispIxCacheTimestamp, resultCache, reqs, aggIn, ixLast, dash>>

PrefixNext == ContainsAll

PrefixSpec == PrefixInit /\ [][PrefixNext]_vars

\* C36: prefixContains(parent, child) is false when the two prefixes are of
\* different address families or the child's mask is shorter than the
\* parent's; it is true for parent = child; it is transitive; and for
\* prefixes of one family whose child mask is no shorter it is true exactly
\* when the first parent-mask bits of the two addresses are equal
C36_ContainmentIsAnOrder ==
  aggOut # Null =>
    LET a == aggIn.a
        b == aggIn.b
        unit == IF IsV6(a.cidr) THEN 16 ELSE 8
        \* the first m bits of the two addresses, unit by unit
        firstBitsEqual(x, y, m) ==
          \A g \in DOMAIN x :
            IF m >= unit * g THEN x[g] = y[g]
            ELSE IF m > unit * (g - 1)
            THEN x[g] \div Pow2(unit * g - m) = y[g] \div Pow2(unit * g - m)
            ELSE TRUE
    IN  /\ IsV6(a.cidr) # IsV6(b.cidr) => ~aggOut.ab
        /\ b.cidr.mask < a.cidr.mask => ~aggOut.ab
        /\ aggOut.aa
        /\ (aggOut.ab /\ aggOut.bc) => aggOut.ac
        /\ (IsV6(a.cidr) = IsV6(b.cidr) /\ b.cidr.mask >= a.cidr.mask) =>
             (aggOut.ab <=> firstBitsEqual(a.addr, b.addr, a.cidr.mask))

\* 104.16.0.0/12 contains 104.16.0.0/13, which contains 104.17.0.0/16
C36_Witness ==
  /\ aggOut # Null
  /\ aggIn.a.cidr = V4(104, 16, 0, 0, 12)
  /\ aggIn.b.cidr = V4(104, 16, 0, 0, 13)
  /\ aggIn.c.cidr = V4(104, 17, 0, 0, 16)
  /\ aggOut.ab /\ aggOut.bc /\ aggOut.ac

(***************************************************************************)
(* The dashboard island (src/islands/NetworkMonitor.tsx): its signals in   *)
(* dash, one record per checkSingleIsp call in dash.single, the            *)
(* checkAllIsps run in dash.all.  A handler runs from a click or from the  *)
(* answer of its fetch to its next await; the answers of /api/check arrive *)
(* in any order.                                                           *)
(***************************************************************************)
\* number of checkSingleIsp calls in one behaviour
MaxClicks == 2

Clicks == 1..MaxClicks

\* the list /api/check answers with, cut to three ISPs of two countries
DashIsps == << ISP_LIST[1], ISP_LIST[9], ISP_LIST[2] >>

\* an ASN typed into the input field
CustomAsn == 64512

FilterValues == {"all"} \cup {DashIsps[i].country : i \in DOMAIN DashIsps}

\* what /api/check?asn= answers: a report, the failure envelope, or no answer
\* (fetch or resp.json() rejects)
CheckOutcomes == {"ok", "failed", "rejected"}

CheckResponseOf(asn, out) ==
  [success |-> TRUE, result |-> [asn |-> asn, score |-> 90]]

IsReport(out) == out = "ok"

\* newMap.set(asn, data.result) on a copy of results.value
MapSet(map, key, value) ==
  [k \in DOMAIN map \cup {key} |-> IF k = key THEN value ELSE map[k]]

\* filterCountry.value === "all" || isp.country === filterCountry.value
passesFilter(d, isp) == d.filterCountry = "all" \/ isp.country = d.filterCountry

DashInit ==
  /\ evo = "kv"
  /\ now = 0
  /\ ticks = 0
  /\ bgpCache = Null
  /\ cfIpCache = Null
  /\ ixCache = [k \in IxKeys(evo) |-> Null]
  /\ ispIxCacheTimestamp = 0
  /\ resultCache = [k \in ResultKeys(evo) |-> Null]
  /\ reqs = [r \in ReqIds |-> IdleReq]
  /\ aggIn = NoAggIn
  /\ aggOut = Null
  /\ ixLast = [k \in IxKeys(evo) |-> Null]
  /\ \E f \in BOOLEAN :
       dash = [DashIdle EXCEPT !.withFilter = f,
                               !.single = [k \in Clicks |-> NoCall]]

DashStep(d) ==
  /\ dash' = d
  /\ UNCHANGED <<evo, now, ticks, bgpCache, cfIpCache, ixCache,
                 ispIxCacheTimestamp, resultCache, reqs, aggIn, aggOut, ixLast>>

\* the effect's fetch("/api/check") answers (NetworkMonitor.tsx:133-142)
LoadIsps(out) ==
  /\ dash.listPc = "fetch"
  /\ DashStep([dash EXCEPT
       !.listPc = "done",
       !.isps = IF IsReport(out) THEN DashIsps ELSE @,
       !.error = IF out = "rejected" THEN "Failed to load ISP list" ELSE @])

\* the country select changes (NetworkMonitor.tsx:258-260)
SetFilter(c) ==
  /\ dash.withFilter
  /\ c # dash.filterCountry
  /\ c = "all" \/ \E i \in DOMAIN dash.isps : dash.isps[i].country = c
  /\ DashStep([dash EXCEPT !.filterCountry = c,
                            !.all.filterChanged = @ \/ dash.all.pc = "fetch"])

\* the controls that call checkSingleIsp(asn): a button of the ISP grid
\* (disabled only for the ASN that is loading), a row of the results table,
\* and the custom ASN field, whose Enter key is never disabled
\* (NetworkMonitor.tsx:203-210, 230-232, 317-329, 746-751)
CanCheck(d, asn) ==
  \/ /\ \E i \in DOMAIN d.isps : d.isps[i].asn = asn /\ passesFilter(d, d.isps[i])
     /\ d.loadingAsn # asn
  \/ asn \in DOMAIN d.results
  \/ asn = CustomAsn

\* checkSingleIsp up to its await fetch(...) (NetworkMonitor.tsx:144-151)
checkSingleIsp(k, asn) ==
  /\ dash.single[k].pc = "idle"
  /\ CanCheck(dash, asn)
  /\ DashStep([dash EXCEPT
       !.error = NoMessage,
       !.loadingAsn = asn,
       !.selectedAsn = asn,
       !.selectedResult = Null,
       !.single[k] = [pc |-> "fetch", asn |-> asn]])

\* checkCustomAsn on a text that is no number (NetworkMonitor.tsx:203-208)
checkCustomAsnInvalid ==
  /\ dash.error # "Please enter a valid AS number"
  /\ DashStep([dash EXCEPT !.error = "Please enter a valid AS number"])

\* selectedResult.value = data; newMap.set(asn, data.result)
\* (NetworkMonitor.tsx:161-164)
SingleStored(d, asn, out) ==
  [d EXCEPT
     !.selectedResult = CheckResponseOf(asn, out),
     !.results = MapSet(@, asn, CheckResponseOf(asn, out).result)]

\* checkSingleIsp from the answer of its fetch to its end
\* (NetworkMonitor.tsx:152-168)
SingleAnswer(k, out) ==
  LET asn == dash.single[k].asn
      d1 == IF IsReport(out) THEN SingleStored(dash, asn, out)
            ELSE IF out = "failed" THEN [dash EXCEPT !.error = "Check failed"]
            ELSE [dash EXCEPT !.error = "Failed to check ISP"]
  IN  /\ dash.single[k].pc = "fetch"
      /\ DashStep([d1 EXCEPT !.loadingAsn = NoAsn,
                             !.single[k] = [pc |-> "done", asn |-> 0]])

\* finally { loadingAsn.value = null; loadingAll.value = false }
AllFinished(d) ==
  [d EXCEPT !.loadingAsn = NoAsn, !.loadingAll = FALSE, !.all.pc = "done"]

\* the for loop from the ISP at index i to its next await fetch(...), or to
\* its end (NetworkMonitor.tsx:176-185, 198-201); all.list is the array that
\* isps.value was when the loop began
RECURSIVE AllFrom(_, _)
AllFrom(d, i) ==
  IF i > Len(d.all.list) THEN AllFinished(d)
  ELSE IF d.withFilter /\ ~passesFilter(d, d.all.list[i])
  THEN AllFrom([d EXCEPT !.all.skipped = Append(@, d.all.list[i].asn)], i + 1)
  ELSE [d EXCEPT !.loadingAsn = d.all.list[i].asn,
                 !.all.pc = "fetch",
                 !.all.idx = i,
                 !.all.requested = Append(@, d.all.list[i].asn)]

\* a rejection that leaves the loop for the outer finally
AllCaughtOutside(d) == AllFinished(d)

\* catch { // continue }: the loop goes on with the next ISP
AllCaught(d) == AllFrom(d, d.all.idx + 1)

\* checkAllIsps up to its first await (NetworkMonitor.tsx:170-185)
checkAllIsps ==
  /\ dash.all.pc = "idle"
  /\ ~dash.loadingAll
  /\ dash.loadingAsn = NoAsn
  /\ DashStep(AllFrom([dash EXCEPT !.all.list = dash.isps,
                                   !.error = NoMessage,
                                   !.loadingAll = TRUE,
                                   !.selectedAsn = NoAsn,
                                   !.selectedResult = Null], 1))

\* checkAllIsps from the answer of a fetch to the next await, or to its end
\* (NetworkMonitor.tsx:186-201)
AllAnswer(out) ==
  LET asn == dash.all.list[dash.all.idx].asn
      d0 == [dash EXCEPT !.all.last = out]
  IN  /\ dash.all.pc = "fetch"
      /\ DashStep(
           IF IsReport(out)
           THEN AllFrom([d0 EXCEPT !.results =
                           MapSet(@, asn, CheckResponseOf(asn, out).result)],
                        d0.all.idx + 1)
           ELSE IF out = "failed" THEN AllFrom(d0, d0.all.idx + 1)
           ELSE AllCaught(d0))

DashNext ==
  \/ \E out \in CheckOutcomes : LoadIsps(out)
  \/ \E c \in FilterValues : SetFilter(c)
  \/ \E k \in Clicks, a \in {DashIsps[i].asn : i \in DOMAIN DashIsps} \cup {CustomAsn} :
       checkSingleIsp(k, a)
  \/ checkCustomAsnInvalid
  \/ \E k \in Clicks, out \in CheckOutcomes : SingleAnswer(k, out)
  \/ checkAllIsps
  \/ \E out \in CheckOutcomes : AllAnswer(out)

DashSpec == DashInit /\ [][DashNext]_vars

\* C37: whenever selectedResult is set, it is the response for the ASN held in
\* selectedAsn
C37_SelectedResultIsOfSelectedAsn ==
  dash.selectedResult # Null =>
    dash.selectedResult.result.asn = dash.selectedAsn

\* C38: checkAllIsps requests the ISPs of the list it found at its start that
\* pass the country filter when the loop reaches them (all of them where there
\* is no filter), one at a time, in list order and each once; an answer that
\* is a failure envelope or a rejection leaves results as it is and the loop
\* goes on with the next ISP; and in the step in which the run ends,
\* loadingAll becomes false and loadingAsn null
C38_CheckAllVisitsEachOnce ==
  [][LET d == dash
         e == dash'
         asns == [i \in DOMAIN e.all.list |-> e.all.list[i].asn]
         reached == IF e.all.pc = "done" THEN Len(asns) ELSE e.all.idx
         req == e.all.requested
         skp == e.all.skipped
         at(a) == CHOOSE i \in DOMAIN asns : asns[i] = a
         answered == d.all.pc = "fetch"
                       /\ (e.all.pc = "done" \/ e.all.idx # d.all.idx)
     IN  /\ e.all.pc \in {"fetch", "done"} =>
              /\ Len(req) + Len(skp) = reached
              /\ \A i \in 1..reached :
                   (\E j \in DOMAIN req : req[j] = asns[i])
                     # (\E j \in DOMAIN skp : skp[j] = asns[i])
              /\ \A j \in DOMAIN req, k \in DOMAIN req :
                   j < k => at(req[j]) < at(req[k])
              /\ e.all.pc = "fetch" =>
                   /\ req[Len(req)] = asns[e.all.idx]
                   /\ e.loadingAll
              /\ ~e.withFilter => skp = <<>>
              /\ (e.all # d.all /\ ~e.all.filterChanged) =>
                   \A i \in 1..reached :
                     (\E j \in DOMAIN req : req[j] = asns[i])
                       <=> passesFilter(e, e.all.list[i])
         /\ (answered /\ e.all.last \in {"failed", "rejected"}) =>
              /\ e.results = d.results
              /\ \/ e.all.pc = "fetch" /\ e.all.idx > d.all.idx
                 \/ /\ e.all.pc = "done"
                    /\ \A i \in (d.all.idx + 1)..Len(asns) :
                         \E j \in DOMAIN skp : skp[j] = asns[i]
         /\ (answered /\ e.all.last = "ok") =>
              /\ DOMAIN e.results = DOMAIN d.results \cup {asns[d.all.idx]}
              /\ e.results[asns[d.all.idx]].asn = asns[d.all.idx]
              /\ \A a \in DOMAIN d.results :
                   a # asns[d.all.idx] => e.results[a] = d.results[a]
         /\ (d.all.pc # "done" /\ e.all.pc = "done") =>
              ~e.loadingAll /\ e.loadingAsn = NoAsn]_vars

\* a run under the filter NL: KPN was requested and failed, Proximus was
\* left out, Ziggo was requested and stored, and the run has ended
C38_Witness ==
  /\ dash.all.pc = "done"
  /\ dash.filterCountry = "NL"
  /\ dash.all.requested = << 1136, 9143 >>
  /\ dash.all.skipped = << 5432 >>
  /\ DOMAIN dash.results = {9143}
  /\ ~dash.loadingAll
  /\ dash.loadingAsn = NoAsn

====
